---------------------------- MODULE Spec2Model ----------------------------
(***************************************************************************)
(* State-machine model of the inventory / document-management application  *)
(* (NestJS + TypeORM backend, Angular frontend).                           *)
(*                                                                         *)
(*   SpecAuth   users store + authentication, one request at a time        *)
(*   SpecRegister registration with a save that may be rejected            *)
(*   SpecCpf    users store explored over the punctuations of the cpf      *)
(*   SpecCrud   users, suppliers and documents stores, get/update/delete   *)
(*   SpecFilter documents store and its filter query                       *)
(*   SpecRace   users store, requests overlapping between read and save    *)
(*   SpecForm   ProductEntryComponent: reactive form, validation, submit   *)
(*   SpecFile   ProductEntryComponent: file selection, reading and removal *)
(*   SpecReset  ProductEntryComponent: resetForm after a save and on cancel  *)
(*   SpecEntries ProductEntryComponent: the table, creates, deletes, reloads *)
(*   SpecFailure ProductEntryComponent: a submit whose request fails       *)
(*   SpecTotal  ProductEntryComponent: quantity, unit value and total      *)
(*   SpecLookup ProductEntryComponent: lookups by id and picked options    *)
(*   SpecGen    ProductEntryService.generateEntryId                        *)
(*   SpecSession frontend AuthService: login, logout and the stored token  *)
(*                                                                         *)
(* Strings whose characters matter (cpf, product names, generated ids) are *)
(* sequences of one-character strings; quantity and unitValue are integers *)
(* in hundredths, their product is in ten-thousandths.                     *)
(***************************************************************************)
EXTENDS Integers, Sequences, FiniteSets, TLC

VARIABLES
    users,        \* rows of the users table (UserEntity)
    nextUserId,   \* auto-increment primary key of the users table
    tokens,       \* uids for which a signed access token has been handed out
    suppliers,    \* rows of the suppliers table (Supplier)
    nextSupplierId,
    documents,    \* rows of the documents table (DocumentEntity)
    nextDocumentId,
    last,         \* the request handled last and its outcome
    pending,      \* users requests that have read the table and not saved yet
    entryForm,    \* ProductEntryComponent.entryForm: value and status per control
    products,     \* ProductEntryComponent.products
    supplierList, \* ProductEntryComponent.suppliers
    entries,      \* ProductEntryComponent.entries.data (ids, first row first)
    uploadFile,   \* ProductEntryComponent.uploadFile
    fileError,    \* ProductEntryComponent.fileError
    file_size_error,
    readers,      \* FileReaders that have not fired onload yet
    http,         \* requests of the component that are not answered yet
    serverEntries,\* ids of the product entries the server stores
    nextEntryId,
    submits,      \* calls of onSubmit so far, modulo 2
    alerts,       \* what the handler that ran last showed with alert()
    generated,    \* the product name generateEntryId is given and the id it returns
    localStorage, \* the browser's localStorage: the item under each key, or null
    logins,       \* login requests of the frontend AuthService not answered yet
    session       \* history: a login has succeeded and no logout has followed it

backendVars == <<users, nextUserId, tokens, suppliers, nextSupplierId,
                 documents, nextDocumentId, last, pending>>

frontendVars == <<entryForm, products, supplierList, entries, uploadFile, fileError,
                  file_size_error, readers, http, serverEntries, nextEntryId, submits, alerts>>

sessionVars == <<localStorage, logins, session>>

vars == <<backendVars, frontendVars, generated, sessionVars>>

-----------------------------------------------------------------------------
(* Bounds of the model *)

MaxRows == 2         \* rows ever inserted, over all tables
MaxCpfRows == 1      \* user rows ever inserted while the cpf inputs are explored
MaxOverlap == 1      \* requests that overlap: users requests between their read
                     \* and their save, login requests not answered
MaxLookups == 1      \* lookups by id that are not answered
MaxInFlight == 1        \* FileReaders reading plus createEntry requests not answered
MaxEntries == 1         \* product entries the server ever stores
MaxNameLen == 5         \* characters of a product name

-----------------------------------------------------------------------------
(* JavaScript values *)

\* null / undefined
Null == [isNull |-> TRUE]

IsNull(v) == v = Null

Digits == {"0", "1", "2", "3", "4", "5", "6", "7", "8", "9"}

\* \d
IsDigit(c) == c \in Digits

\* s.replace(/\D/g, '')
StripNonDigits(s) == SelectSeq(s, IsDigit)

\* the exceptions the handlers throw
HttpException(message, status) ==
    [throw |-> "HttpException", status |-> status, message |-> message]

\* the error the repository rejects with when the database refuses a statement
QueryFailedError(message) ==
    [throw |-> "QueryFailedError", status |-> 500, message |-> message]

TypeError == [throw |-> "TypeError", status |-> 500, message |-> "TypeError"]

Return(v) == [throw |-> "none", value |-> v]

Throws(r) == r.throw # "none"

BAD_REQUEST == 400
UNAUTHORIZED == 401
NOT_FOUND == 404
INTERNAL_SERVER_ERROR == 500


-----------------------------------------------------------------------------
(* Users: mapper.ts and users.service.ts *)

\* first index at which n consecutive digits start, 0 when there is none
FirstDigitRun(s, n) ==
    LET starts == { i \in 1..(Len(s) - n + 1) :
                      \A k \in 0..(n - 1) : IsDigit(s[i + k]) }
    IN  IF starts = {} THEN 0
        ELSE CHOOSE i \in starts : \A j \in starts : i <= j

CpfDigits == 11

\* cpf.replace(/(\d{3})(\d{3})(\d{3})(\d{2})/, '$1.$2.$3-$4')
MaskCpf(s) ==
    LET i == FirstDigitRun(s, CpfDigits)
    IN  IF i = 0 THEN s
        ELSE SubSeq(s, 1, i - 1)
             \o SubSeq(s, i, i + 2) \o <<".">>
             \o SubSeq(s, i + 3, i + 5) \o <<".">>
             \o SubSeq(s, i + 6, i + 8) \o <<"-">>
             \o SubSeq(s, i + 9, i + 10)
             \o SubSeq(s, i + 11, Len(s))

\* toUserDTO(entity): reads entity.id first, so a null entity is a TypeError
toUserDTO(entity) ==
    IF IsNull(entity) THEN TypeError
    ELSE Return([id    |-> entity.id,
                 uid   |-> entity.uid,
                 name  |-> entity.name,
                 email |-> entity.email,
                 cpf   |-> MaskCpf(StripNonDigits(entity.cpf))])

\* mapUserDTO storing the cpf as typed
mapUserDTOKeepCpf(dto) ==
    [name     |-> dto.name,
     email    |-> dto.email,
     password |-> dto.password,
     cpf      |-> dto.cpf]

\* UsersService.mapUserDTO
mapUserDTO(dto) ==
    [name     |-> dto.name,
     email    |-> dto.email,
     password |-> dto.password,
     cpf      |-> StripNonDigits(dto.cpf)]

\* the stored form of a password (UserEntity hashes it when the row is written)
HashPassword(p) == <<"hash", p>>

\* comparePasswords(userPassword, currentPassword) of src/utils
comparePasswords(stored, plain) == stored = HashPassword(plain)

\* uuid.v4(): a value no earlier call returned
NewUid(n) == <<"uid", n>>

\* repository.findOne({ where: ... }): the first matching row, or null
FindOne(rows, column, value) ==
    LET hit == { r \in rows : r[column] = value }
    IN  IF hit = {} THEN Null
        ELSE CHOOSE r \in hit : \A q \in hit : r.id <= q.id

FindOneById(rows, id) == FindOne(rows, "id", id)

\* repository.save of an entity that has no id yet: INSERT with the next key
InsertUser(us, nid, fields) ==
    [id       |-> nid,
     uid      |-> fields.uid,
     name     |-> fields.name,
     email    |-> fields.email,
     password |-> HashPassword(fields.password),
     cpf      |-> fields.cpf]

\* a preload whose fields carry a uid of their own, as those of createUser do
PreloadUserNewUid(us, id, fields) ==
    LET row == FindOneById(us, id)
    IN  IF IsNull(row) THEN Null
        ELSE [row EXCEPT !.uid      = <<"uid", "update", id>>,
                         !.name     = fields.name,
                         !.email    = fields.email,
                         !.password = HashPassword(fields.password),
                         !.cpf      = fields.cpf]

\* repository.preload({ id, ...fields }): the stored row with the fields merged
PreloadUser(us, id, fields) ==
    LET row == FindOneById(us, id)
    IN  IF IsNull(row) THEN Null
        ELSE [row EXCEPT !.name     = fields.name,
                         !.email    = fields.email,
                         !.password = HashPassword(fields.password),
                         !.cpf      = fields.cpf]

\* repository.save of an entity that carries an id: UPDATE, or INSERT if absent
SaveRow(rows, entity) == { r \in rows : r.id # entity.id } \cup {entity}

\* repository.delete(id): removes the row if there is one, never throws for 0 rows
DeleteRow(rows, id) == { r \in rows : r.id # id }

\* getUser without the check for a missing row
getUserNoCheck(us, id) == toUserDTO(FindOneById(us, id))

\* UsersService.getUser
getUser(us, id) ==
    LET user == FindOneById(us, id)
    IN  IF IsNull(user) THEN HttpException("User not found", BAD_REQUEST)
        ELSE toUserDTO(user)

\* createUser without the lookup by email
createUserNoLookup(us, nid, userDTO, fault) ==
    LET user  == mapUserDTO(userDTO) @@ [uid |-> NewUid(nid)]
        saved == InsertUser(us, nid, user)
    IN  IF ~IsNull(fault)
        THEN [users |-> us, nextUserId |-> nid, res |-> fault]
        ELSE [users |-> us \cup {saved}, nextUserId |-> nid + 1,
              res |-> toUserDTO(saved)]

\* UsersService.createUser: [users, nextUserId, res]; fault is the error
\* userRepository.save rejects with, null when it stores the row
createUser(us, nid, userDTO, fault) ==
    LET userInDB == FindOne(us, "email", userDTO.email)
        user     == mapUserDTO(userDTO) @@ [uid |-> NewUid(nid)]
        saved    == InsertUser(us, nid, user)
    IN  IF ~IsNull(userInDB)
        THEN [users |-> us, nextUserId |-> nid,
              res |-> HttpException("User already exists", BAD_REQUEST)]
        ELSE IF ~IsNull(fault)
        THEN [users |-> us, nextUserId |-> nid, res |-> fault]
        ELSE [users |-> us \cup {saved}, nextUserId |-> nid + 1,
              res |-> toUserDTO(saved)]

\* updateUser that saves the fields under the id when no row has it
updateUserUpsert(us, id, userDTO) ==
    LET fields == mapUserDTO(userDTO)
        found  == PreloadUser(us, id, fields)
        user   == IF IsNull(found)
                  THEN InsertUser(us, id, fields @@ [uid |-> NewUid(id)])
                  ELSE found
    IN  [users |-> SaveRow(us, user), res |-> toUserDTO(user)]

\* UsersService.updateUser: [users, res]
updateUser(us, id, userDTO) ==
    LET user == PreloadUser(us, id, mapUserDTO(userDTO))
    IN  IF IsNull(user)
        THEN [users |-> us, res |-> HttpException("User not found", NOT_FOUND)]
        ELSE [users |-> SaveRow(us, user), res |-> toUserDTO(user)]

\* the rows in the order find() returns them (by primary key)
RECURSIVE RowsInOrder(_)
RowsInOrder(rows) ==
    IF rows = {} THEN <<>>
    ELSE LET r == CHOOSE x \in rows : \A y \in rows : x.id <= y.id
         IN  <<r>> \o RowsInOrder(rows \ {r})

\* UsersService.getAllUsers
getAllUsers(us) ==
    LET result == RowsInOrder(us)
    IN  Return([users |-> [i \in 1..Len(result) |-> toUserDTO(result[i]).value]])

\* UsersService.deleteUser: [users, res]
deleteUser(us, id) == [users |-> DeleteRow(us, id), res |-> Return(Null)]

\* findByLogin without the password comparison
findByLoginNoCompare(us, loginUserDTO) ==
    LET user == FindOne(us, "email", loginUserDTO.email)
    IN  IF IsNull(user) THEN HttpException("User not found", UNAUTHORIZED)
        ELSE toUserDTO(user)

\* UsersService.findByLogin
findByLogin(us, loginUserDTO) ==
    LET user == FindOne(us, "email", loginUserDTO.email)
    IN  IF IsNull(user) THEN HttpException("User not found", UNAUTHORIZED)
        ELSE IF ~comparePasswords(user.password, loginUserDTO.password)
        THEN HttpException("Invalid credentials", UNAUTHORIZED)
        ELSE toUserDTO(user)

\* UsersService.findByPayload
findByPayload(us, payload) ==
    toUserDTO(FindOne(us, "uid", payload.uid))

-----------------------------------------------------------------------------
(* Authentication: auth.service.ts and auth.controller.ts *)

\* jwtService.sign(payload)
Sign(payload) == [jwt |-> payload]

\* DEFAULT_EXPIRESIN of auth.module
DEFAULT_EXPIRESIN == "DEFAULT_EXPIRESIN"

\* AuthService._createToken; env is process.env.EXPIRESIN ("" when unset)
createToken(user, env) ==
    [expiresIn   |-> IF env # "" THEN env ELSE DEFAULT_EXPIRESIN,
     accessToken |-> Sign([uid |-> user.uid])]

\* register without the try / catch around createUser
AuthServiceRegisterNoCatch(us, nid, userDto, fault) ==
    LET c == createUser(us, nid, userDto, fault)
    IN  [users |-> c.users, nextUserId |-> c.nextUserId,
         res |-> IF Throws(c.res) THEN c.res
                 ELSE Return([success |-> TRUE, message |-> "user registered"])]

\* AuthService.register: [users, nextUserId, res]
AuthServiceRegister(us, nid, userDto, fault) ==
    LET c == createUser(us, nid, userDto, fault)
    IN  [users |-> c.users, nextUserId |-> c.nextUserId,
         res |-> IF Throws(c.res)
                 THEN Return([success |-> FALSE,
                              message |-> IF c.res.message # "" THEN c.res.message
                                          ELSE "user registration failed"])
                 ELSE Return([success |-> TRUE, message |-> "user registered"])]

\* AuthController.register: [users, nextUserId, res]
AuthControllerRegister(us, nid, createUserDto, fault) ==
    LET r == AuthServiceRegister(us, nid, createUserDto, fault)
    IN  [users |-> r.users, nextUserId |-> r.nextUserId,
         res |-> IF Throws(r.res) THEN r.res
                 ELSE IF ~r.res.value.success
                 THEN HttpException(r.res.value.message, BAD_REQUEST)
                 ELSE r.res]

\* AuthService.login
AuthServiceLogin(us, loginUserDto, env) ==
    LET user == findByLogin(us, loginUserDto)
    IN  IF Throws(user) THEN user
        ELSE LET token == createToken(user.value, env)
             IN  Return([accessToken |-> token.accessToken,
                         expiresIn   |-> token.expiresIn,
                         uid         |-> user.value.uid])

\* AuthService.validateUser
validateUser(us, payload) ==
    LET user == findByPayload(us, payload)
    IN  IF Throws(user) THEN user
        ELSE IF IsNull(user.value)
        THEN HttpException("Invalid token", UNAUTHORIZED)
        ELSE user

-----------------------------------------------------------------------------
(* Suppliers: supplier.service.ts *)

NotFoundException(message) == HttpException(message, NOT_FOUND)

\* the fields of a row overwritten by the fields a partial DTO supplies
Merge(row, dto) ==
    [f \in DOMAIN row |-> IF f \in DOMAIN dto THEN dto[f] ELSE row[f]]

\* SupplierService.findAll
SupplierFindAll(ss) == Return(RowsInOrder(ss))

\* SupplierService.findOne
SupplierFindOne(ss, id) == Return(FindOneById(ss, id))

\* SupplierService.create: [suppliers, nextSupplierId, res]
SupplierCreate(ss, nid, dto) ==
    LET supplier == dto @@ [id |-> nid]
    IN  [suppliers |-> ss \cup {supplier}, nextSupplierId |-> nid + 1,
         res |-> Return(supplier)]

\* SupplierService.update: [suppliers, res]
SupplierUpdate(ss, id, dto) ==
    LET row      == FindOneById(ss, id)
        supplier == IF IsNull(row) THEN Null ELSE Merge(row, dto)
    IN  IF IsNull(supplier)
        THEN [suppliers |-> ss, res |-> NotFoundException("Supplier not found")]
        ELSE [suppliers |-> SaveRow(ss, supplier), res |-> Return(supplier)]

\* SupplierService.remove: [suppliers, res]
SupplierRemove(ss, id) == [suppliers |-> DeleteRow(ss, id), res |-> Return(Null)]

\* SupplierService.findByCode
SupplierFindByCode(ss, code) ==
    LET supplier == FindOneById(ss, code)
    IN  IF IsNull(supplier) THEN NotFoundException("Fornecedor nao encontrado")
        ELSE Return(supplier)

-----------------------------------------------------------------------------
(* Documents: DocumentsService *)

\* toDocumentDTO of documents/mapper
toDocumentDTO(doc) ==
    [id |-> doc.id, filename |-> doc.filename, file_type |-> doc.file_type,
     upload_date |-> doc.upload_date, user_id |-> doc.user_id]

\* the unique key of the documents table: filename + owner
DocumentDuplicate(ds, dto) ==
    \E d \in ds : d.filename = dto.filename /\ d.user_id = dto.user_id

\* documentsRepository.save(doc): the error code it raises, "" when it stores;
\* fault is a persistence failure of the database other than a duplicate key
DocumentSaveError(ds, dto, fault) ==
    IF DocumentDuplicate(ds, dto) THEN "ER_DUP_ENTRY" ELSE fault

\* createDocument without the test for ER_DUP_ENTRY
createDocumentAnyError(ds, nid, dto, fault) ==
    LET doc == dto @@ [id |-> nid]
        err == DocumentSaveError(ds, dto, fault)
    IN  IF err = ""
        THEN [documents |-> ds \cup {doc}, nextDocumentId |-> nid + 1,
              res |-> Return(toDocumentDTO(doc))]
        ELSE [documents |-> ds, nextDocumentId |-> nid,
              res |-> HttpException(err, INTERNAL_SERVER_ERROR)]

\* DocumentsService.createDocument: [documents, nextDocumentId, res]
createDocument(ds, nid, dto, fault) ==
    LET doc == dto @@ [id |-> nid]
        err == DocumentSaveError(ds, dto, fault)
    IN  IF err = ""
        THEN [documents |-> ds \cup {doc}, nextDocumentId |-> nid + 1,
              res |-> Return(toDocumentDTO(doc))]
        ELSE [documents |-> ds, nextDocumentId |-> nid,
              res |-> IF err = "ER_DUP_ENTRY"
                      THEN HttpException("Document already exists", BAD_REQUEST)
                      ELSE HttpException(err, INTERNAL_SERVER_ERROR)]

\* DocumentsService.findById
findById(ds, id) ==
    LET doc == FindOneById(ds, id)
    IN  IF IsNull(doc) THEN HttpException("Document not found", NOT_FOUND)
        ELSE Return(toDocumentDTO(doc))

\* DocumentsService.getDocumentById
getDocumentById(ds, id) == Return(FindOneById(ds, id))

-----------------------------------------------------------------------------
(* Request inputs *)

CpfSlack == 1        \* cpf inputs carry CpfDigits - CpfSlack .. CpfDigits + CpfSlack digits

DigitChars == <<"0", "1", "2", "3", "4", "5", "6", "7", "8", "9">>

\* the digit string 1234567890123... of length n
DigitString(n) == [i \in 1..n |-> DigitChars[(i % 10) + 1]]

\* a digit string written with the usual cpf punctuation
Punctuate(s) ==
    SubSeq(s, 1, 3) \o <<".">> \o SubSeq(s, 4, 6) \o <<".">>
    \o SubSeq(s, 7, 9) \o <<"-">> \o SubSeq(s, 10, Len(s))

\* a digit string written with blanks and a letter
Scatter(s) == <<" ">> \o SubSeq(s, 1, 3) \o <<"x">> \o SubSeq(s, 4, Len(s))

CpfInputs ==
    UNION { { DigitString(n), Punctuate(DigitString(n)), Scatter(DigitString(n)) } :
            n \in (CpfDigits - CpfSlack)..(CpfDigits + CpfSlack) }

Emails == {"ana@x", "bia@x"}
Passwords == {"pw1", "pw2"}

\* the request bodies of each specification
AuthDtos ==
    [name : {"Ana"}, email : Emails, password : Passwords,
     cpf : {Punctuate(DigitString(CpfDigits))}]

CpfDtos == [name : {"Ana"}, email : Emails, password : {"pw1"}, cpf : CpfInputs]

CrudDtos ==
    { [name |-> "Ana", email |-> "ana@x", password |-> "pw1",
       cpf |-> Punctuate(DigitString(CpfDigits))],
      [name |-> "Bia", email |-> "bia@x", password |-> "pw2",
       cpf |-> Scatter(DigitString(CpfDigits))] }

LoginUserDTO == [email : Emails, password : Passwords]

\* process.env.EXPIRESIN: unset, or a configured lifetime
ExpiresInEnv == {"", "3600s"}

Ids == 1..(MaxRows + 1)

CreateSupplierDto == [name : {"Acme"}, contact : {"c1", "c2"}]

\* UpdateSupplierDto: any subset of the fields
UpdateSupplierDto ==
    UNION { [fs -> {"Bolt"}] : fs \in SUBSET {"name", "contact"} }

CreateDocumentDTO ==
    [filename : {"inv.pdf", "nf.pdf"}, file_type : {"pdf"},
     upload_date : {"2025-01-01"}, user_id : {1}]

\* persistence failures other than a duplicate key
SaveFaults == {"", "ER_LOCK_DEADLOCK"}

\* what userRepository.save does: it stores the row (null), or it rejects with
\* an error that has a message or an empty one
UserSaveFaults == {Null, QueryFailedError("ER_LOCK_DEADLOCK"), QueryFailedError("")}

-----------------------------------------------------------------------------
(* Requests. Each is handled to completion before the next one starts. *)

\* tick alternates with every request, so that two equal requests in a row
\* are two steps
Answered(op, arg, res) ==
    /\ last' = [op |-> op, arg |-> arg, res |-> res, tick |-> 1 - last.tick]
    /\ UNCHANGED <<frontendVars, generated, sessionVars>>

\* a request handled while no other request is between its read and its save
Handled(op, arg, res) == Answered(op, arg, res) /\ UNCHANGED pending

UsersUnchanged == UNCHANGED <<users, nextUserId, tokens>>
SuppliersUnchanged == UNCHANGED <<suppliers, nextSupplierId>>
DocumentsUnchanged == UNCHANGED <<documents, nextDocumentId>>

EmailTaken(email) == \E r \in users : r.email = email

\* fewer than max rows have been inserted so far
InsertedBelow(max) ==
    (nextUserId - 1) + (nextSupplierId - 1) + (nextDocumentId - 1) < max

\* POST /auth/register
Register(dto, fault) ==
    /\ InsertedBelow(MaxRows) \/ EmailTaken(dto.email) \/ ~IsNull(fault)
    /\ LET r == AuthControllerRegister(users, nextUserId, dto, fault)
       IN  /\ users' = r.users
           /\ nextUserId' = r.nextUserId
           /\ Handled("register", dto @@ [fault |-> fault], r.res)
    /\ UNCHANGED tokens
    /\ SuppliersUnchanged /\ DocumentsUnchanged

\* POST /auth/login
Login(dto, env) ==
    /\ LET r == AuthServiceLogin(users, dto, env)
       IN  /\ tokens' = IF Throws(r) THEN tokens ELSE tokens \cup {r.value.uid}
           /\ Handled("login", dto @@ [env |-> env], r)
    /\ UNCHANGED <<users, nextUserId>>
    /\ SuppliersUnchanged /\ DocumentsUnchanged

\* GET /auth/whoami: the guard verifies the token and validates its payload
WhoAmI(uid) ==
    /\ uid \in tokens
    /\ Handled("validateUser", [uid |-> uid], validateUser(users, [uid |-> uid]))
    /\ UsersUnchanged /\ SuppliersUnchanged /\ DocumentsUnchanged

CreateUser(dto, max) ==
    /\ InsertedBelow(max) \/ EmailTaken(dto.email)
    /\ LET r == createUser(users, nextUserId, dto, Null)
       IN  /\ users' = r.users
           /\ nextUserId' = r.nextUserId
           /\ Handled("createUser", dto, r.res)
    /\ UNCHANGED tokens
    /\ SuppliersUnchanged /\ DocumentsUnchanged

GetUser(id) ==
    /\ Handled("getUser", [id |-> id], getUser(users, id))
    /\ UsersUnchanged /\ SuppliersUnchanged /\ DocumentsUnchanged

GetAllUsers ==
    /\ Handled("getAllUsers", Null, getAllUsers(users))
    /\ UsersUnchanged /\ SuppliersUnchanged /\ DocumentsUnchanged

UpdateUser(id, dto) ==
    /\ LET r == updateUser(users, id, dto)
       IN  /\ users' = r.users
           /\ Handled("updateUser", [id |-> id, dto |-> dto], r.res)
    /\ UNCHANGED <<nextUserId, tokens>>
    /\ SuppliersUnchanged /\ DocumentsUnchanged

DeleteUser(id) ==
    /\ LET r == deleteUser(users, id)
       IN  /\ users' = r.users
           /\ Handled("deleteUser", [id |-> id], r.res)
    /\ UNCHANGED <<nextUserId, tokens>>
    /\ SuppliersUnchanged /\ DocumentsUnchanged

CreateSupplier(dto) ==
    /\ InsertedBelow(MaxRows)
    /\ LET r == SupplierCreate(suppliers, nextSupplierId, dto)
       IN  /\ suppliers' = r.suppliers
           /\ nextSupplierId' = r.nextSupplierId
           /\ Handled("supplier.create", dto, r.res)
    /\ UsersUnchanged /\ DocumentsUnchanged

FindOneSupplier(id) ==
    /\ Handled("supplier.findOne", [id |-> id], SupplierFindOne(suppliers, id))
    /\ UsersUnchanged /\ SuppliersUnchanged /\ DocumentsUnchanged

FindSupplierByCode(id) ==
    /\ Handled("supplier.findByCode", [id |-> id], SupplierFindByCode(suppliers, id))
    /\ UsersUnchanged /\ SuppliersUnchanged /\ DocumentsUnchanged

FindAllSuppliers ==
    /\ Handled("supplier.findAll", Null, SupplierFindAll(suppliers))
    /\ UsersUnchanged /\ SuppliersUnchanged /\ DocumentsUnchanged

UpdateSupplier(id, dto) ==
    /\ LET r == SupplierUpdate(suppliers, id, dto)
       IN  /\ suppliers' = r.suppliers
           /\ Handled("supplier.update", [id |-> id, dto |-> dto], r.res)
    /\ UNCHANGED nextSupplierId
    /\ UsersUnchanged /\ DocumentsUnchanged

RemoveSupplier(id) ==
    /\ LET r == SupplierRemove(suppliers, id)
       IN  /\ suppliers' = r.suppliers
           /\ Handled("supplier.remove", [id |-> id], r.res)
    /\ UNCHANGED nextSupplierId
    /\ UsersUnchanged /\ DocumentsUnchanged

CreateDocument(dto, fault) ==
    /\ InsertedBelow(MaxRows) \/ DocumentDuplicate(documents, dto) \/ fault # ""
    /\ LET r == createDocument(documents, nextDocumentId, dto, fault)
       IN  /\ documents' = r.documents
           /\ nextDocumentId' = r.nextDocumentId
           /\ Handled("createDocument", dto, r.res)
    /\ UsersUnchanged /\ SuppliersUnchanged

FindDocumentById(id) ==
    /\ Handled("findById", [id |-> id], findById(documents, id))
    /\ UsersUnchanged /\ SuppliersUnchanged /\ DocumentsUnchanged

GetDocumentById(id) ==
    /\ Handled("getDocumentById", [id |-> id], getDocumentById(documents, id))
    /\ UsersUnchanged /\ SuppliersUnchanged /\ DocumentsUnchanged

-----------------------------------------------------------------------------
(* The reactive form of ProductEntryComponent *)

\* Values a control holds.  A string, a number and a Date are told apart by
\* their tag, as === tells them apart.  The numbers in quantity and unitValue
\* are in hundredths.
Str(s) == [str |-> s]

Num(n) == [num |-> n]

IsNum(v) == DOMAIN v = {"num"}

\* new Date()
Today == [date |-> "today"]

\* !v
Falsy(v) == v = Null \/ v = Str("") \/ v = Num(0)

\* The controls in the order of fb.group({...}).  observations, batch and
\* category have no validator and no subscription and are left out.
Controls ==
    <<"productId", "productName", "supplierId", "supplierName", "entryDate",
      "quantity", "unitValue", "totalValue", "invoiceNumber">>

ControlNames == {Controls[i] : i \in DOMAIN Controls}

\* isEmptyInputValue of @angular/forms
isEmptyInputValue(v) == v = Null \/ v = Str("")

\* Validators.required: TRUE when the control has the error
required(v) == isEmptyInputValue(v)

\* 0.01, in hundredths
MinAmount == 1

\* Validators.min(min): an empty or non-numeric value has no error
min(m, v) == ~isEmptyInputValue(v) /\ IsNum(v) /\ v.num < m

\* the validators of fb.group({...}): TRUE when the value has an error
HasErrors(c, v) ==
    CASE c \in {"productId", "supplierId", "entryDate", "invoiceNumber"} -> required(v)
      [] c \in {"quantity", "unitValue"} -> required(v) \/ min(MinAmount, v)
      [] OTHER -> FALSE

\* AbstractControl.updateValueAndValidity of one control: a disabled control
\* keeps its status, an enabled one gets the verdict of its own validators
StatusOf(f, c, v) ==
    IF f.status[c] = "DISABLED" THEN "DISABLED"
    ELSE IF HasErrors(c, v) THEN "INVALID" ELSE "VALID"

\* FormControl.setValue(v, {emitEvent: false}): only this control is validated
ControlSet(f, c, v) ==
    [value |-> [f.value EXCEPT ![c] = v],
     status |-> [f.status EXCEPT ![c] = StatusOf(f, c, v)]]

\* FormGroup.valid: the group has no validator of its own, its status is
\* computed from the statuses its controls hold
FormValid(f) == \A c \in ControlNames : f.status[c] # "INVALID"

\* the form built by the constructor
NewForm ==
    LET value == [c \in ControlNames |->
                    CASE c = "entryDate" -> Today
                      [] c \in {"quantity", "unitValue"} -> Null
                      [] OTHER -> Str("")]
        enabled == [value |-> value, status |-> [c \in ControlNames |-> "VALID"]]
    IN  [value |-> value,
         status |-> [c \in ControlNames |->
                       IF c = "totalValue" THEN "DISABLED"
                       ELSE StatusOf(enabled, c, value[c])]]

\* parseFloat(v) || 0
ParseFloatOr0(v) == IF IsNum(v) THEN v.num ELSE 0

\* (x).toFixed(2) of x = p ten-thousandths, p >= 0: the text with two decimals
\* that denotes the result, in hundredths.  A tie (p ends in 50) is rounded by
\* the binary value of x, which lies on either side: up says which.
toFixed2(p, up) ==
    [fixed2 |-> (p \div 100) + (IF p % 100 > 50 \/ (p % 100 = 50 /\ up) THEN 1 ELSE 0)]

\* a total that is not recomputed
calculateTotalNever(f, up) == f

calculateTotal(f, up) ==
    LET q == ParseFloatOr0(f.value["quantity"])
        v == ParseFloatOr0(f.value["unitValue"])
    IN  ControlSet(f, "totalValue", toFixed2(q * v, up))

\* list.find((x) => x.id === id)
Find(list, id) ==
    LET hits == {i \in DOMAIN list : list[i].id = id}
    IN  IF hits = {} THEN Null
        ELSE list[CHOOSE i \in hits : \A j \in hits : i <= j]

\* the subscription to productId.valueChanges
onProductIdChanges(f, ps) ==
    LET productId == f.value["productId"]
        product == Find(ps, productId)
    IN  IF Falsy(productId) THEN ControlSet(f, "productName", Str(""))
        ELSE IF product # Null THEN ControlSet(f, "productName", product.name)
        ELSE ControlSet(f, "productName", Str(""))

\* the subscription to supplierId.valueChanges
onSupplierIdChanges(f, ss) ==
    LET supplier == Find(ss, f.value["supplierId"])
    IN  IF supplier # Null /\ f.value["supplierName"] # supplier.name
        THEN ControlSet(f, "supplierName", supplier.name)
        ELSE f

\* setupFormSubscriptions: what runs when control c emits valueChanges
valueChanges(f, c, ps, ss, up) ==
    CASE c \in {"quantity", "unitValue"} -> calculateTotal(f, up)
      [] c = "productId" -> onProductIdChanges(f, ps)
      [] c = "supplierId" -> onSupplierIdChanges(f, ss)
      [] OTHER -> f

\* FormControl.setValue(v): the control is validated, then it emits
SetValue(f, c, v, ps, ss, up) == valueChanges(ControlSet(f, c, v), c, ps, ss, up)

\* the argument of entryForm.reset({...})
ResetState ==
    [c \in ControlNames |->
       CASE c = "entryDate" -> Today
         [] c \in {"productName", "supplierName", "invoiceNumber"} -> Str("")
         [] OTHER -> Null]

\* FormGroup.reset(state): the controls from the i-th on are reset in order,
\* each one emitting valueChanges
RECURSIVE FormGroupReset(_, _, _, _, _)
FormGroupReset(f, state, i, ps, ss) ==
    IF i > Len(Controls) THEN f
    ELSE FormGroupReset(SetValue(f, Controls[i], state[Controls[i]], ps, ss, FALSE),
                        state, i + 1, ps, ss)

\* control.setErrors(null): the status is computed from the errors alone
setErrorsNull(f, c) ==
    [f EXCEPT !.status[c] = IF @ = "DISABLED" THEN "DISABLED" ELSE "VALID"]

\* Object.keys(entryForm.controls).forEach((key) => get(key).setErrors(null))
RECURSIVE ClearErrors(_, _)
ClearErrors(f, i) ==
    IF i > Len(Controls) THEN f
    ELSE ClearErrors(setErrorsNull(f, Controls[i]), i + 1)

resetForm(f, ps, ss) == ClearErrors(FormGroupReset(f, ResetState, 1, ps, ss), 1)

\* String(v) of a control's value: the text "null" for null, the numeral of
\* a number, a text as it is
String(v) ==
    IF v = Null THEN Str("null")
    ELSE IF IsNum(v) THEN [numeral |-> v.num]
    ELSE v

\* formValue.entryDate ? new Date(formValue.entryDate).toISOString() : ''
ToISOString(v) == IF Falsy(v) THEN Str("") ELSE [iso |-> v]

\* reader.result.split(',')[1] of the data URL of a file
Base64(file) == <<"base64", file.name, file.size>>

\* new File([bytes of atob(base64)], name, {type: 'application/pdf'})
FilePart(upload) ==
    [name |-> upload.name, type |-> "application/pdf", bytes |-> <<"atob", upload.base64>>]

\* the FormData onSubmit builds from getRawValue() and the held file
FormDataOf(f, upload) ==
    [productId |-> String(f.value["productId"]),
     supplierId |-> String(f.value["supplierId"]),
     entryDate |-> ToISOString(f.value["entryDate"]),
     quantity |-> String(f.value["quantity"]),
     unitValue |-> String(f.value["unitValue"]),
     totalValue |-> String(f.value["totalValue"]),
     invoiceNumber |-> String(f.value["invoiceNumber"]),
     file |-> IF upload # Null THEN <<FilePart(upload)>> ELSE <<>>]

\* 30 * 1024
MAX_FILE_SIZE == 30720

\* s without its i-th element
RemoveAt(s, i) == SubSeq(s, 1, i - 1) \o SubSeq(s, i + 1, Len(s))

\* the requests of kind req that are not answered yet
Pending(req) == {i \in DOMAIN http : http[i].req = req}

-----------------------------------------------------------------------------
(* ProductEntryComponent: what the user and the network do to it *)

\* what the user types into the controls: a value that passes the validators
\* and an empty or too small one
Inputs ==
    [productId |-> {Null, Num(1)},
     supplierId |-> {Null, Num(1)},
     entryDate |-> {Null, Today},
     quantity |-> {Num(0), Num(100)},
     unitValue |-> {Null, Num(100)},
     invoiceNumber |-> {Str(""), Str("NF-1")}]

\* values that pass the validators; the products of the quantities and the
\* unit values are exact, on a tie and below a hundredth
ValidInputs ==
    [productId |-> {Num(1)},
     supplierId |-> {Num(1)},
     quantity |-> {Num(1), Num(200)},
     unitValue |-> {Num(1), Num(1050)},
     invoiceNumber |-> {Str("NF-1")}]

\* input.files of the file input
AttachedPdf == <<[name |-> "nota.pdf", type |-> "application/pdf", size |-> MAX_FILE_SIZE]>>

FileInputs ==
    { <<>>,
      AttachedPdf,
      <<[name |-> "grande.pdf", type |-> "application/pdf", size |-> MAX_FILE_SIZE + 1]>>,
      <<[name |-> "nota.xml", type |-> "text/xml", size |-> 1]>> }

\* no FileReader is reading and no createEntry request is on its way
Waited == readers = <<>> /\ Pending("createEntry") = {}

\* a handler of the component has run and has shown these alerts
Shows(messages) ==
    alerts' = messages /\ UNCHANGED <<backendVars, generated, sessionVars>>

FrontendHandled == Shows(<<>>)

\* the user edits control c
Edit(c, v, up) ==
    /\ entryForm' = SetValue(entryForm, c, v, products, supplierList, up)
    /\ UNCHANGED <<products, supplierList, entries, uploadFile, fileError,
                   file_size_error, readers, http, serverEntries, nextEntryId, submits>>
    /\ FrontendHandled

\* a FileReader can start, a createEntry request can be sent
CanStart == Len(readers) + Cardinality(Pending("createEntry")) < MaxInFlight

\* onSubmit goes as far as createEntry
Sends == FormValid(entryForm) /\ uploadFile # Null

\* onSubmit without the check of the held file
OnSubmitAnyway ==
    /\ CanStart
    /\ submits' = 1 - submits
    /\ IF ~FormValid(entryForm)
       THEN UNCHANGED <<fileError, http>>
       ELSE /\ fileError' = FALSE
            /\ http' = Append(http, [req |-> "createEntry",
                                     body |-> FormDataOf(entryForm, uploadFile)])
    /\ UNCHANGED <<entryForm, products, supplierList, entries, uploadFile,
                   file_size_error, readers, serverEntries, nextEntryId>>
    /\ FrontendHandled

OnSubmit ==
    /\ ~Sends \/ CanStart
    /\ submits' = 1 - submits
    /\ IF ~FormValid(entryForm)
       THEN UNCHANGED <<fileError, http>>
       ELSE IF uploadFile = Null
       THEN fileError' = TRUE /\ UNCHANGED http
       ELSE /\ fileError' = FALSE
            /\ http' = Append(http, [req |-> "createEntry",
                                     body |-> FormDataOf(entryForm, uploadFile)])
    /\ UNCHANGED <<entryForm, products, supplierList, entries, uploadFile,
                   file_size_error, readers, serverEntries, nextEntryId>>
    /\ FrontendHandled

\* POST /product-entry is answered: the server stored the entry and the next
\* handler prepends it and resets the form
CreateEntrySaved(i) ==
    /\ i \in Pending("createEntry")
    /\ nextEntryId <= MaxEntries
    /\ serverEntries' = serverEntries \cup {nextEntryId}
    /\ nextEntryId' = nextEntryId + 1
    /\ http' = RemoveAt(http, i)
    /\ entries' = <<nextEntryId>> \o entries
    /\ entryForm' = resetForm(entryForm, products, supplierList)
    /\ UNCHANGED <<products, supplierList, uploadFile, fileError, file_size_error,
                   readers, submits>>
    /\ FrontendHandled

\* err.error?.message of a failed request: none, or the message of the server
ErrorMessages == {"", "Internal server error"}

\* 'Erro ao salvar: ' + (err.error?.message || 'Verifique os dados')
SaveAlert(message) ==
    "Erro ao salvar: " \o (IF message # "" THEN message ELSE "Verifique os dados")

\* an error handler that alerts and sends the request again
CreateEntryFailedRetries(i, message) ==
    /\ i \in Pending("createEntry")
    /\ http' = Append(RemoveAt(http, i), http[i])
    /\ UNCHANGED <<entryForm, products, supplierList, entries, uploadFile, fileError,
                   file_size_error, readers, serverEntries, nextEntryId, submits>>
    /\ Shows(<<SaveAlert(message)>>)

\* POST /product-entry fails with this err.error?.message: the error handler
\* alerts
CreateEntryFailed(i, message) ==
    /\ i \in Pending("createEntry")
    /\ http' = RemoveAt(http, i)
    /\ UNCHANGED <<entryForm, products, supplierList, entries, uploadFile, fileError,
                   file_size_error, readers, serverEntries, nextEntryId, submits>>
    /\ Shows(<<SaveAlert(message)>>)

\* a cancel that also drops the held file
OnCancelRemovesFile ==
    /\ entryForm' = resetForm(entryForm, products, supplierList)
    /\ uploadFile' = Null
    /\ UNCHANGED <<products, supplierList, entries, fileError,
                   file_size_error, readers, http, serverEntries, nextEntryId, submits>>
    /\ FrontendHandled

OnCancel ==
    /\ entryForm' = resetForm(entryForm, products, supplierList)
    /\ UNCHANGED <<products, supplierList, entries, uploadFile, fileError,
                   file_size_error, readers, http, serverEntries, nextEntryId, submits>>
    /\ FrontendHandled

\* onFileSelected goes as far as readAsDataURL
Reads(files) ==
    /\ Len(files) > 0
    /\ files[1].type = "application/pdf"
    /\ files[1].size <= MAX_FILE_SIZE

\* onFileSelected without the check of the size
OnFileSelectedAnySize(files) ==
    /\ ~(Len(files) > 0 /\ files[1].type = "application/pdf") \/ CanStart
    /\ IF Len(files) = 0 \/ files[1].type # "application/pdf"
       THEN UNCHANGED <<file_size_error, readers>>
       ELSE /\ file_size_error' = FALSE
            /\ readers' = Append(readers, files[1])
    /\ UNCHANGED <<entryForm, products, supplierList, entries, uploadFile, fileError,
                   http, serverEntries, nextEntryId, submits>>
    /\ Shows(IF Len(files) > 0 /\ files[1].type # "application/pdf"
             THEN <<"Apenas arquivos PDF sao permitidos!">> ELSE <<>>)

OnFileSelected(files) ==
    /\ ~Reads(files) \/ CanStart
    /\ IF Len(files) = 0 \/ files[1].type # "application/pdf"
       THEN UNCHANGED <<file_size_error, readers>>
       ELSE IF files[1].size > MAX_FILE_SIZE
       THEN file_size_error' = TRUE /\ UNCHANGED readers
       ELSE /\ file_size_error' = FALSE
            /\ readers' = Append(readers, files[1])
    /\ UNCHANGED <<entryForm, products, supplierList, entries, uploadFile, fileError,
                   http, serverEntries, nextEntryId, submits>>
    /\ Shows(IF Len(files) > 0 /\ files[1].type # "application/pdf"
             THEN <<"Apenas arquivos PDF sao permitidos!">> ELSE <<>>)

\* reader.onload of the i-th FileReader
FileReaderOnload(i) ==
    /\ i \in DOMAIN readers
    /\ uploadFile' = [name |-> readers[i].name, base64 |-> Base64(readers[i])]
    /\ readers' = RemoveAt(readers, i)
    /\ UNCHANGED <<entryForm, products, supplierList, entries, fileError,
                   file_size_error, http, serverEntries, nextEntryId, submits>>
    /\ FrontendHandled

RemoveFile ==
    /\ uploadFile' = Null
    /\ UNCHANGED <<entryForm, products, supplierList, entries, fileError,
                   file_size_error, readers, http, serverEntries, nextEntryId, submits>>
    /\ FrontendHandled

\* the component after its constructor and ngOnInit
FrontendInit ==
    /\ entryForm = NewForm
    /\ products = <<>>
    /\ supplierList = <<>>
    /\ entries = <<>>
    /\ uploadFile = Null
    /\ fileError = FALSE
    /\ file_size_error = FALSE
    /\ readers = <<>>
    /\ http = <<[req |-> "getEntries"], [req |-> "getProducts"], [req |-> "getSuppliers"]>>
    /\ serverEntries = {}
    /\ nextEntryId = 1
    /\ submits = 0
    /\ alerts = <<>>
-----------------------------------------------------------------------------
(* ProductEntryService.generateEntryId *)

LowerLetters ==
    <<"a", "b", "c", "d", "e", "f", "g", "h", "i", "j", "k", "l", "m",
      "n", "o", "p", "q", "r", "s", "t", "u", "v", "w", "x", "y", "z">>

UpperLetters ==
    <<"A", "B", "C", "D", "E", "F", "G", "H", "I", "J", "K", "L", "M",
      "N", "O", "P", "Q", "R", "S", "T", "U", "V", "W", "X", "Y", "Z">>

\* s.toUpperCase()
toUpperCase(s) ==
    [i \in DOMAIN s |->
       IF \E k \in DOMAIN LowerLetters : LowerLetters[k] = s[i]
       THEN UpperLetters[CHOOSE k \in DOMAIN LowerLetters : LowerLetters[k] = s[i]]
       ELSE s[i]]

\* s.split(' ')
RECURSIVE Split(_)
Split(s) ==
    LET spaces == {i \in DOMAIN s : s[i] = " "}
    IN  IF spaces = {} THEN <<s>>
        ELSE LET i == CHOOSE k \in spaces : \A j \in spaces : k <= j
             IN  <<SubSeq(s, 1, i - 1)>> \o Split(SubSeq(s, i + 1, Len(s)))

\* word.charAt(0)
charAt0(word) == IF Len(word) = 0 THEN <<>> ELSE <<word[1]>>

\* words.map((word) => word.charAt(0)).join('')
RECURSIVE JoinInitials(_)
JoinInitials(words) ==
    IF Len(words) = 0 THEN <<>>
    ELSE charAt0(Head(words)) \o JoinInitials(Tail(words))

\* n.toString() of an integer n >= 0
RECURSIVE NumberToString(_)
NumberToString(n) ==
    IF n < 10 THEN <<DigitChars[n + 1]>>
    ELSE NumberToString(n \div 10) \o <<DigitChars[(n % 10) + 1]>>

\* s.padStart(4, '0')
RECURSIVE padStart4(_)
padStart4(s) == IF Len(s) >= 4 THEN s ELSE padStart4(<<"0">> \o s)

\* s.substring(0, 6)
substring06(s) == SubSeq(s, 1, IF Len(s) < 6 THEN Len(s) ELSE 6)

\* initials + randomNum, before the shuffle
Combined(productName, random) ==
    toUpperCase(JoinInitials(Split(productName))) \o padStart4(NumberToString(random))

\* generateEntryId(productName) when Math.floor(Math.random() * 9999) is
\* random and sort(() => Math.random() - 0.5) leaves the characters in the
\* order perm
generateEntryId(productName, random, perm) ==
    LET combined == Combined(productName, random)
        shuffled == [i \in DOMAIN combined |-> combined[perm[i]]]
    IN  substring06(shuffled)

\* the characters of the product names explored
NameChars == {"p", "-", " "}

ProductNames == UNION {[1..n -> NameChars] : n \in 1..MaxNameLen}

\* outcomes of Math.floor(Math.random() * 9999)
RandomNums == {7, 9998}

\* generateEntryId is called with the name drawn at the start
GenerateEntryId(random, perm) ==
    /\ generated.id = Null
    /\ generated' = [generated EXCEPT
                       !.id = generateEntryId(generated.productName, random, perm)]
    /\ UNCHANGED <<backendVars, frontendVars, sessionVars>>
-----------------------------------------------------------------------------
(* DocumentsService.findWithFilters *)

\* s.toLowerCase()
toLowerCase(s) ==
    [i \in DOMAIN s |->
       IF \E k \in DOMAIN UpperLetters : UpperLetters[k] = s[i]
       THEN LowerLetters[CHOOSE k \in DOMAIN UpperLetters : UpperLetters[k] = s[i]]
       ELSE s[i]]

\* a string whose characters matter, as a value of a query parameter
Text(s) == [text |-> s]

\* if (v): null, undefined and '' are skipped, any other string is not
Supplied(v) == ~Falsy(v) /\ v # Text(<<>>)

NaN == [nan |-> TRUE]

\* Number(v): of a numeral its number, of '' and null 0, of a number itself
Number(v) ==
    IF DOMAIN v = {"numeral"} THEN Num(v.numeral)
    ELSE IF IsNum(v) THEN v
    ELSE IF v = Null \/ v = Str("") THEN Num(0)
    ELSE NaN

\* s LIKE p of the database: % stands for any characters, _ for any one
\* character, \ takes the next character of the pattern as it is
RECURSIVE Like(_, _)
Like(s, p) ==
    IF p = <<>> THEN s = <<>>
    ELSE IF Head(p) = "%"
    THEN Like(s, Tail(p)) \/ (s # <<>> /\ Like(Tail(s), p))
    ELSE IF Head(p) = "_"
    THEN s # <<>> /\ Like(Tail(s), Tail(p))
    ELSE IF Head(p) = "\\" /\ Len(p) > 1
    THEN s # <<>> /\ Head(s) = p[2] /\ Like(Tail(s), Tail(Tail(p)))
    ELSE s # <<>> /\ Head(s) = Head(p) /\ Like(Tail(s), Tail(p))

\* the WHERE clause findWithFilters builds, for one row
FilterWhere(doc, filters) ==
    /\ Supplied(filters.file_type) => Str(doc.file_type) = filters.file_type
    /\ Supplied(filters.user_id) => Num(doc.user_id) = Number(filters.user_id)
    /\ Supplied(filters.id) => Num(doc.id) = Number(filters.id)
    /\ Supplied(filters.filename) =>
         Like(toLowerCase(doc.filename),
              <<"%">> \o toLowerCase(filters.filename.text) \o <<"%">>)
    /\ Supplied(filters.upload_date) => Str(doc.upload_date) = filters.upload_date

\* DocumentsService.findWithFilters; getMany() yields the rows by primary key
findWithFilters(ds, filters) ==
    LET docs == RowsInOrder({doc \in ds : FilterWhere(doc, filters)})
    IN  Return([i \in 1..Len(docs) |-> toDocumentDTO(docs[i])])

\* the query parameters: each filter absent or supplied; the filename also
\* empty, in another case, and with the characters _ and %
DocumentFilter ==
    [file_type : {Null, Str("pdf")},
     user_id : {Null, [numeral |-> 1]},
     id : {Null, [numeral |-> 1]},
     filename : {Null, Text(<<>>), Text(<<"I", "N">>), Text(<<"n", "_", "1">>),
                 Text(<<"%">>)},
     upload_date : {Null, Str("2025-01-01")}]

\* the documents that are uploaded
FilteredDocumentDTO ==
    { [filename |-> <<"i", "n", "_", "1">>, file_type |-> "pdf",
       upload_date |-> "2025-01-01", user_id |-> 1],
      [filename |-> <<"I", "n", "-", "1">>, file_type |-> "pdf",
       upload_date |-> "2025-01-02", user_id |-> 2],
      [filename |-> <<"n", "f">>, file_type |-> "xml",
       upload_date |-> "2025-01-01", user_id |-> 1] }

\* GET /documents
FindWithFilters(filters) ==
    /\ Handled("findWithFilters", filters, findWithFilters(documents, filters))
    /\ UsersUnchanged /\ SuppliersUnchanged /\ DocumentsUnchanged

-----------------------------------------------------------------------------
(* UsersService: requests whose awaits interleave *)

\* createUser up to its first await: the lookup by email has answered
CreateUserFindOne(dto) ==
    /\ Len(pending) < MaxOverlap
    /\ pending' = Append(pending, [op |-> "createUser", dto |-> dto,
                                   userInDB |-> FindOne(users, "email", dto.email)])
    /\ UNCHANGED <<last, frontendVars, generated, sessionVars>>
    /\ UsersUnchanged /\ SuppliersUnchanged /\ DocumentsUnchanged

\* createUser from the lookup on: the throw, or create, save and return
CreateUserSave(i) ==
    /\ pending[i].op = "createUser"
    /\ InsertedBelow(MaxRows) \/ ~IsNull(pending[i].userInDB)
    /\ pending' = RemoveAt(pending, i)
    /\ LET dto   == pending[i].dto
           user  == mapUserDTO(dto) @@ [uid |-> NewUid(nextUserId)]
           saved == InsertUser(users, nextUserId, user)
       IN  IF ~IsNull(pending[i].userInDB)
           THEN /\ UNCHANGED <<users, nextUserId>>
                /\ Answered("createUser", dto,
                            HttpException("User already exists", BAD_REQUEST))
           ELSE /\ users' = users \cup {saved}
                /\ nextUserId' = nextUserId + 1
                /\ Answered("createUser", dto, toUserDTO(saved))
    /\ UNCHANGED tokens
    /\ SuppliersUnchanged /\ DocumentsUnchanged

\* updateUser up to its await of preload
UpdateUserPreload(id, dto) ==
    /\ Len(pending) < MaxOverlap
    /\ pending' = Append(pending, [op |-> "updateUser", id |-> id, dto |-> dto,
                                   user |-> PreloadUser(users, id, mapUserDTO(dto))])
    /\ UNCHANGED <<last, frontendVars, generated, sessionVars>>
    /\ UsersUnchanged /\ SuppliersUnchanged /\ DocumentsUnchanged

\* updateUser from preload on: the throw, or save and return
UpdateUserSave(i) ==
    /\ pending[i].op = "updateUser"
    /\ pending' = RemoveAt(pending, i)
    /\ LET user == pending[i].user
           arg  == [id |-> pending[i].id, dto |-> pending[i].dto]
       IN  IF IsNull(user)
           THEN /\ UNCHANGED users
                /\ Answered("updateUser", arg, HttpException("User not found", NOT_FOUND))
           ELSE /\ users' = SaveRow(users, user)
                /\ Answered("updateUser", arg, toUserDTO(user))
    /\ UNCHANGED <<nextUserId, tokens>>
    /\ SuppliersUnchanged /\ DocumentsUnchanged

-----------------------------------------------------------------------------
(* ProductEntryComponent: resolving products and suppliers *)

\* isNaN(v)
isNaN(v) == Number(v) = NaN

\* the test of the id without the comparison with 0
InvalidIdAnySign(v) == v = Null \/ isNaN(v)

\* productIdNum == null || isNaN(productIdNum) || productIdNum <= 0
InvalidId(v) == IF v = Null \/ isNaN(v) THEN TRUE ELSE Number(v).num <= 0

\* entryForm.patchValue(patch, {emitEvent: emit}): the controls of the patch
\* are set in the order of its keys
RECURSIVE patchValue(_, _, _, _, _)
patchValue(f, patch, emit, ps, ss) ==
    IF patch = <<>> THEN f
    ELSE LET c == Head(patch)[1]
             v == Head(patch)[2]
         IN  patchValue(IF emit THEN SetValue(f, c, v, ps, ss, FALSE)
                        ELSE ControlSet(f, c, v),
                        Tail(patch), emit, ps, ss)

\* the products and the suppliers the server stores
ProductCatalog ==
    <<[id |-> Num(1), name |-> Str("Parafuso")], [id |-> Num(2), name |-> Str("Porca")]>>

SupplierCatalog == <<[id |-> Num(1), name |-> Str("Acme")]>>

\* GET /products is answered: loadProducts keeps the list, or [] on an error
GetProductsResponse(i, ok) ==
    /\ i \in Pending("getProducts")
    /\ products' = IF ok THEN ProductCatalog ELSE <<>>
    /\ http' = RemoveAt(http, i)
    /\ UNCHANGED <<entryForm, supplierList, entries, uploadFile, fileError,
                   file_size_error, readers, serverEntries, nextEntryId, submits>>
    /\ FrontendHandled

\* GET /suppliers is answered
GetSuppliersResponse(i, ok) ==
    /\ i \in Pending("getSuppliers")
    /\ supplierList' = IF ok THEN SupplierCatalog ELSE <<>>
    /\ http' = RemoveAt(http, i)
    /\ UNCHANGED <<entryForm, products, entries, uploadFile, fileError,
                   file_size_error, readers, serverEntries, nextEntryId, submits>>
    /\ FrontendHandled

\* a lookup by id can be sent
CanLookUp ==
    Cardinality(Pending("getProductById") \cup Pending("getSupplierById")) < MaxLookups

\* onProductIdBlur / onSupplierIdBlur, for the controls idc and namec
IdBlur(idc, namec, req, message) ==
    LET idNum == entryForm.value[idc]
    IN  /\ InvalidId(idNum) \/ CanLookUp
        /\ IF InvalidId(idNum)
           THEN /\ entryForm' = patchValue(entryForm,
                                           <<<<idc, Null>>, <<namec, Str("")>>>>,
                                           TRUE, products, supplierList)
                /\ UNCHANGED http
                /\ Shows(<<message>>)
           ELSE /\ http' = Append(http, [req |-> req, id |-> idNum])
                /\ UNCHANGED entryForm
                /\ Shows(<<>>)
        /\ UNCHANGED <<products, supplierList, entries, uploadFile, fileError,
                       file_size_error, readers, serverEntries, nextEntryId, submits>>

OnProductIdBlur ==
    IdBlur("productId", "productName", "getProductById", "ID do produto invalido")

OnSupplierIdBlur ==
    IdBlur("supplierId", "supplierName", "getSupplierById", "ID do fornecedor invalido")

\* GET /products/:id or /suppliers/:id is answered; an error is turned into
\* null by catchError, so the next handler runs for it too
ByIdResponse(i, ok, req, catalog, idc, namec, message) ==
    /\ i \in Pending(req)
    /\ http' = RemoveAt(http, i)
    /\ LET found == IF ok THEN Find(catalog, Number(http[i].id)) ELSE Null
       IN  IF found # Null
           THEN /\ entryForm' = patchValue(entryForm, <<<<namec, found.name>>>>,
                                           TRUE, products, supplierList)
                /\ Shows(<<>>)
           ELSE /\ entryForm' = patchValue(entryForm,
                                           <<<<idc, Null>>, <<namec, Str("")>>>>,
                                           TRUE, products, supplierList)
                /\ Shows(<<message>>)
    /\ UNCHANGED <<products, supplierList, entries, uploadFile, fileError,
                   file_size_error, readers, serverEntries, nextEntryId, submits>>

GetProductByIdResponse(i, ok) ==
    ByIdResponse(i, ok, "getProductById", ProductCatalog, "productId", "productName",
                 "Produto nao encontrado. Cadastre antes de dar entrada.")

GetSupplierByIdResponse(i, ok) ==
    ByIdResponse(i, ok, "getSupplierById", SupplierCatalog, "supplierId", "supplierName",
                 "Fornecedor nao encontrado.")

\* products.find((p) => p.id): the first product whose id is truthy
FindTruthyId(list) ==
    LET hits == {i \in DOMAIN list : ~Falsy(list[i].id)}
    IN  IF hits = {} THEN Null
        ELSE list[CHOOSE i \in hits : \A j \in hits : i <= j]

\* onProductOptionSelected(selectedValue)
OnProductOptionSelected(selectedValue) ==
    /\ LET product == FindTruthyId(products)
       IN  IF Falsy(selectedValue) \/ isNaN(selectedValue) \/ product = Null
           THEN UNCHANGED entryForm
           ELSE entryForm' = patchValue(entryForm,
                                        <<<<"productId", product.id>>,
                                          <<"productName", product.name>>>>,
                                        FALSE, products, supplierList)
    /\ UNCHANGED <<products, supplierList, entries, uploadFile, fileError, file_size_error,
                   readers, http, serverEntries, nextEntryId, submits>>
    /\ FrontendHandled

\* onSupplierOptionSelected(selectedValue)
OnSupplierOptionSelected(selectedValue) ==
    /\ LET hits == {i \in DOMAIN supplierList :
                      Number(supplierList[i].id) = Number(selectedValue)}
       IN  IF hits = {} THEN UNCHANGED entryForm
           ELSE LET supplier == supplierList[CHOOSE i \in hits : \A j \in hits : i <= j]
                IN  entryForm' = patchValue(entryForm,
                                            <<<<"supplierId", supplier.id>>,
                                              <<"supplierName", supplier.name>>>>,
                                            FALSE, products, supplierList)
    /\ UNCHANGED <<products, supplierList, entries, uploadFile, fileError, file_size_error,
                   readers, http, serverEntries, nextEntryId, submits>>
    /\ FrontendHandled

\* what is typed into the id controls: nothing, a text, zero, the id of a
\* stored record and an id no record has
IdInputs == {Null, Str("abc"), Num(0), Num(1), Num(3)}

\* the values of the options: none, a text, the numerals of ids
OptionValues == {Str(""), Str("abc"), [numeral |-> 1], [numeral |-> 2], [numeral |-> 3]}

-----------------------------------------------------------------------------
(* The AuthService of the frontend *)

\* setToken(token): localStorage.setItem('accessToken', token)
setToken(storage, token) == [storage EXCEPT !["accessToken"] = token]

\* a logout that leaves the item where it is
logoutKeepsToken(storage) == storage

\* logout(): localStorage.removeItem('accessToken')
logout(storage) == [storage EXCEPT !["accessToken"] = Null]

\* getToken(): localStorage.getItem('accessToken')
getToken(storage) == storage["accessToken"]

\* isLoggedIn(): !!this.getToken()
isLoggedIn(storage) == ~Falsy(getToken(storage))

\* login(dto), subscribed: the request is sent
AuthLogin(dto) ==
    /\ Len(logins) < MaxOverlap
    /\ logins' = Append(logins, dto)
    /\ UNCHANGED <<localStorage, session, backendVars, frontendVars, generated>>

\* POST /auth/login is answered, or fails on its way: tap stores the token
\* of a response and does not run for an error
AuthLoginResponse(i, env, ok) ==
    /\ logins' = RemoveAt(logins, i)
    /\ IF ok
       THEN LET r == AuthServiceLogin(users, logins[i], env)
            IN  /\ tokens' = IF Throws(r) THEN tokens ELSE tokens \cup {r.value.uid}
                /\ last' = [op |-> "login", arg |-> logins[i] @@ [env |-> env],
                            res |-> r, tick |-> 1 - last.tick]
                /\ localStorage' = IF Throws(r) THEN localStorage
                                   ELSE setToken(localStorage, r.value.accessToken)
                /\ session' = IF Throws(r) THEN session ELSE TRUE
       ELSE UNCHANGED <<tokens, last, localStorage, session>>
    /\ UNCHANGED <<users, nextUserId, pending, frontendVars, generated>>
    /\ SuppliersUnchanged /\ DocumentsUnchanged

AuthLogout ==
    /\ localStorage' = logout(localStorage)
    /\ session' = FALSE
    /\ UNCHANGED <<logins, backendVars, frontendVars, generated>>

\* a browser that holds no token
SessionInit ==
    /\ localStorage = [key \in {"accessToken"} |-> Null]
    /\ logins = <<>>
    /\ session = FALSE

-----------------------------------------------------------------------------
(* ProductEntryComponent: the table of entries and the requests that fill it *)

\* the entries of the set S as the list GET /product-entry answers with
RECURSIVE EntryList(_)
EntryList(S) ==
    IF S = {} THEN <<>>
    ELSE LET first == CHOOSE x \in S : \A y \in S : x <= y
         IN  <<first>> \o EntryList(S \ {first})

\* the server has handled the i-th request and its answer is on the way
Served(i) == "answer" \in DOMAIN http[i]

\* the i-th request was sent by loadEntries, not by loadData
IsReload(i) == "reload" \in DOMAIN http[i]

\* the getEntries requests sent by loadEntries
Reloads == {i \in Pending("getEntries") : IsReload(i)}

\* a deleteEntry request can be sent
CanDelete == Cardinality(Pending("deleteEntry") \cup Reloads) < MaxInFlight

\* the server handles POST /product-entry: the entry is stored under the next id
CreateEntryStored(i) ==
    /\ i \in Pending("createEntry")
    /\ ~Served(i)
    /\ nextEntryId <= MaxEntries
    /\ serverEntries' = serverEntries \cup {nextEntryId}
    /\ nextEntryId' = nextEntryId + 1
    /\ http' = [http EXCEPT ![i] = @ @@ [answer |-> nextEntryId]]
    /\ UNCHANGED <<entryForm, products, supplierList, entries, uploadFile, fileError,
                   file_size_error, readers, submits>>
    /\ UNCHANGED <<alerts, backendVars, generated, sessionVars>>

\* the next handler of createEntry: the saved entry is put in front of the
\* table and the form is reset
CreateEntryNext(i) ==
    /\ i \in Pending("createEntry")
    /\ Served(i)
    /\ http' = RemoveAt(http, i)
    /\ entries' = <<http[i].answer>> \o entries
    /\ entryForm' = resetForm(entryForm, products, supplierList)
    /\ UNCHANGED <<products, supplierList, uploadFile, fileError, file_size_error,
                   readers, serverEntries, nextEntryId, submits>>
    /\ FrontendHandled

\* the server handles GET /product-entry: it answers with what it stores now
GetEntriesServed(i) ==
    /\ i \in Pending("getEntries")
    /\ ~Served(i)
    /\ http' = [http EXCEPT ![i] = @ @@ [answer |-> EntryList(serverEntries)]]
    /\ UNCHANGED <<entryForm, products, supplierList, entries, uploadFile, fileError,
                   file_size_error, readers, serverEntries, nextEntryId, submits>>
    /\ UNCHANGED <<alerts, backendVars, generated, sessionVars>>

\* the handlers of getEntries in loadData and loadEntries: next replaces the
\* table by the answer; error empties the table in loadData and only logs in
\* loadEntries
GetEntriesResponse(i, ok) ==
    /\ i \in Pending("getEntries")
    /\ ok => Served(i)
    /\ http' = RemoveAt(http, i)
    /\ entries' = IF ok THEN http[i].answer
                  ELSE IF IsReload(i) THEN entries
                  ELSE <<>>
    /\ UNCHANGED <<entryForm, products, supplierList, uploadFile, fileError,
                   file_size_error, readers, serverEntries, nextEntryId, submits>>
    /\ FrontendHandled

\* deleteEntry(entry) of the k-th row of the table, confirmed by the user
DeleteEntry(k) ==
    /\ k \in DOMAIN entries
    /\ CanDelete
    /\ http' = Append(http, [req |-> "deleteEntry", id |-> entries[k]])
    /\ UNCHANGED <<entryForm, products, supplierList, entries, uploadFile, fileError,
                   file_size_error, readers, serverEntries, nextEntryId, submits>>
    /\ FrontendHandled

\* the server handles DELETE /product-entry/:id
DeleteEntryServed(i) ==
    /\ i \in Pending("deleteEntry")
    /\ ~Served(i)
    /\ serverEntries' = serverEntries \ {http[i].id}
    /\ http' = [http EXCEPT ![i] = @ @@ [answer |-> Null]]
    /\ UNCHANGED <<entryForm, products, supplierList, entries, uploadFile, fileError,
                   file_size_error, readers, nextEntryId, submits>>
    /\ UNCHANGED <<alerts, backendVars, generated, sessionVars>>

\* the handlers of deleteEntry: next calls loadEntries, error only logs
DeleteEntryResponse(i, ok) ==
    /\ i \in Pending("deleteEntry")
    /\ ok => Served(i)
    /\ http' = IF ok THEN Append(RemoveAt(http, i), [req |-> "getEntries", reload |-> TRUE])
               ELSE RemoveAt(http, i)
    /\ UNCHANGED <<entryForm, products, supplierList, entries, uploadFile, fileError,
                   file_size_error, readers, serverEntries, nextEntryId, submits>>
    /\ FrontendHandled

-----------------------------------------------------------------------------
(* Specifications *)

BackendInit ==
    /\ users = {}
    /\ nextUserId = 1
    /\ tokens = {}
    /\ suppliers = {}
    /\ nextSupplierId = 1
    /\ documents = {}
    /\ nextDocumentId = 1
    /\ last = [op |-> "none", arg |-> Null, res |-> Return(Null), tick |-> 0]
    /\ pending = <<>>

\* generateEntryId has not been called
Idle == [productName |-> <<>>, id |-> Null]

\* the backend with empty tables, the component after ngOnInit
Init == BackendInit /\ FrontendInit /\ generated = Idle /\ SessionInit

NextAuth ==
    \/ \E dto \in AuthDtos : Register(dto, Null)
    \/ \E dto \in LoginUserDTO, env \in ExpiresInEnv : Login(dto, env)
    \/ \E uid \in tokens : WhoAmI(uid)
    \/ \E id \in Ids, dto \in AuthDtos : UpdateUser(id, dto)
    \/ \E id \in Ids : DeleteUser(id)

SpecAuth == Init /\ [][NextAuth]_vars

\* registrations whose save stores the row or is rejected by the database
NextRegister ==
    \/ \E dto \in AuthDtos, fault \in UserSaveFaults : Register(dto, fault)
    \/ \E id \in Ids : DeleteUser(id)

SpecRegister == Init /\ [][NextRegister]_vars

NextCpf ==
    \/ \E dto \in CpfDtos : CreateUser(dto, MaxCpfRows)
    \/ \E id \in Ids, dto \in CpfDtos : UpdateUser(id, dto)
    \/ \E id \in Ids : GetUser(id)
    \/ GetAllUsers
    \/ \E id \in Ids : DeleteUser(id)

SpecCpf == Init /\ [][NextCpf]_vars

NextCrud ==
    \/ \E dto \in CrudDtos : CreateUser(dto, MaxRows)
    \/ \E id \in Ids : GetUser(id)
    \/ \E id \in Ids, dto \in CrudDtos : UpdateUser(id, dto)
    \/ \E id \in Ids : DeleteUser(id)
    \/ \E dto \in CreateSupplierDto : CreateSupplier(dto)
    \/ \E id \in Ids : FindOneSupplier(id)
    \/ \E id \in Ids : FindSupplierByCode(id)
    \/ FindAllSuppliers
    \/ \E id \in Ids, dto \in UpdateSupplierDto : UpdateSupplier(id, dto)
    \/ \E id \in Ids : RemoveSupplier(id)
    \/ \E dto \in CreateDocumentDTO, fault \in SaveFaults : CreateDocument(dto, fault)
    \/ \E id \in Ids : FindDocumentById(id)
    \/ \E id \in Ids : GetDocumentById(id)

SpecCrud == Init /\ [][NextCrud]_vars

NextFilter ==
    \/ \E dto \in FilteredDocumentDTO : CreateDocument(dto, "")
    \/ \E filters \in DocumentFilter : FindWithFilters(filters)

SpecFilter == Init /\ [][NextFilter]_vars

NextRace ==
    \/ \E dto \in CrudDtos : CreateUserFindOne(dto)
    \/ \E i \in DOMAIN pending : CreateUserSave(i)
    \/ \E id \in Ids, dto \in CrudDtos : UpdateUserPreload(id, dto)
    \/ \E i \in DOMAIN pending : UpdateUserSave(i)
    \/ \E id \in Ids : DeleteUser(id)

SpecRace == Init /\ [][NextRace]_vars

\* every control is edited, to a value its validators accept and to one they
\* reject; one file is attached
NextForm ==
    \/ \E v \in Inputs.productId : Edit("productId", v, FALSE)
    \/ \E v \in Inputs.supplierId : Edit("supplierId", v, FALSE)
    \/ \E v \in Inputs.entryDate : Edit("entryDate", v, FALSE)
    \/ \E v \in Inputs.quantity, up \in BOOLEAN : Edit("quantity", v, up)
    \/ \E v \in Inputs.unitValue, up \in BOOLEAN : Edit("unitValue", v, up)
    \/ \E v \in Inputs.invoiceNumber : Edit("invoiceNumber", v, FALSE)
    \/ OnSubmit
    \/ \E i \in DOMAIN http : CreateEntrySaved(i)
    \/ \E i \in DOMAIN http, message \in ErrorMessages : CreateEntryFailed(i, message)
    \/ OnCancel
    \/ OnFileSelected(AttachedPdf)
    \/ \E i \in DOMAIN readers : FileReaderOnload(i)

SpecForm == Init /\ [][NextForm]_vars

\* every kind of file is selected and removed; the controls are filled in
NextFile ==
    \/ \E v \in ValidInputs.productId : Edit("productId", v, FALSE)
    \/ \E v \in ValidInputs.supplierId : Edit("supplierId", v, FALSE)
    \/ \E up \in BOOLEAN : Edit("quantity", Num(100), up)
    \/ \E up \in BOOLEAN : Edit("unitValue", Num(100), up)
    \/ \E v \in ValidInputs.invoiceNumber : Edit("invoiceNumber", v, FALSE)
    \/ OnSubmit
    \/ \E i \in DOMAIN http : CreateEntrySaved(i)
    \/ \E i \in DOMAIN http : CreateEntryFailed(i, "")
    \/ \E files \in FileInputs : OnFileSelected(files)
    \/ \E i \in DOMAIN readers : FileReaderOnload(i)
    \/ RemoveFile

SpecFile == Init /\ [][NextFile]_vars

\* quantity and unitValue are edited over amounts whose products are exact,
\* on a tie and below a hundredth
NextTotal ==
    \/ \E v \in ValidInputs.productId : Edit("productId", v, FALSE)
    \/ \E v \in ValidInputs.supplierId : Edit("supplierId", v, FALSE)
    \/ \E v \in ValidInputs.quantity, up \in BOOLEAN : Edit("quantity", v, up)
    \/ \E v \in ValidInputs.unitValue, up \in BOOLEAN : Edit("unitValue", v, up)
    \/ \E v \in ValidInputs.invoiceNumber : Edit("invoiceNumber", v, FALSE)
    \/ OnSubmit
    \/ \E i \in DOMAIN http : CreateEntrySaved(i)
    \/ \E i \in DOMAIN http : CreateEntryFailed(i, "")
    \/ OnFileSelected(AttachedPdf)
    \/ \E i \in DOMAIN readers : FileReaderOnload(i)

SpecTotal == Init /\ [][NextTotal]_vars

\* a filled form is submitted and the request succeeds or fails
NextFailure ==
    \/ \E v \in ValidInputs.productId : Edit("productId", v, FALSE)
    \/ \E v \in ValidInputs.supplierId : Edit("supplierId", v, FALSE)
    \/ Edit("quantity", Num(100), FALSE)
    \/ Edit("unitValue", Num(100), FALSE)
    \/ \E v \in ValidInputs.invoiceNumber : Edit("invoiceNumber", v, FALSE)
    \/ OnSubmit
    \/ \E i \in DOMAIN http : CreateEntrySaved(i)
    \/ \E i \in DOMAIN http, message \in ErrorMessages : CreateEntryFailed(i, message)
    \/ OnFileSelected(AttachedPdf)
    \/ \E i \in DOMAIN readers : FileReaderOnload(i)
    \/ RemoveFile

SpecFailure == Init /\ [][NextFailure]_vars

\* the form is filled, submitted, saved and cancelled while files are selected
\* and removed; the user waits for a request or a reader before the next one
NextReset ==
    \/ \E v \in ValidInputs.productId : Edit("productId", v, FALSE)
    \/ \E v \in ValidInputs.supplierId : Edit("supplierId", v, FALSE)
    \/ Edit("quantity", Num(100), FALSE)
    \/ Edit("unitValue", Num(100), FALSE)
    \/ \E v \in ValidInputs.invoiceNumber : Edit("invoiceNumber", v, FALSE)
    \/ Waited /\ OnSubmit
    \/ \E i \in DOMAIN http : CreateEntrySaved(i)
    \/ OnCancel
    \/ \E files \in FileInputs : Waited /\ OnFileSelected(files)
    \/ \E i \in DOMAIN readers : FileReaderOnload(i)
    \/ RemoveFile

SpecReset == Init /\ [][NextReset]_vars

\* entries are created and deleted while the table is loaded and reloaded
NextEntries ==
    \/ \E v \in ValidInputs.productId : Edit("productId", v, FALSE)
    \/ \E v \in ValidInputs.supplierId : Edit("supplierId", v, FALSE)
    \/ Edit("quantity", Num(100), FALSE)
    \/ Edit("unitValue", Num(100), FALSE)
    \/ \E v \in ValidInputs.invoiceNumber : Edit("invoiceNumber", v, FALSE)
    \/ OnFileSelected(AttachedPdf)
    \/ \E i \in DOMAIN readers : FileReaderOnload(i)
    \/ OnSubmit
    \/ \E i \in DOMAIN http : CreateEntryStored(i)
    \/ \E i \in DOMAIN http : CreateEntryNext(i)
    \/ \E i \in DOMAIN http : GetEntriesServed(i)
    \/ \E i \in DOMAIN http, ok \in BOOLEAN : GetEntriesResponse(i, ok)
    \/ \E k \in DOMAIN entries : DeleteEntry(k)
    \/ \E i \in DOMAIN http : DeleteEntryServed(i)
    \/ \E i \in DOMAIN http, ok \in BOOLEAN : DeleteEntryResponse(i, ok)

SpecEntries == Init /\ [][NextEntries]_vars

\* the id controls are edited and left, options are picked, the lists load
NextLookup ==
    \/ \E v \in IdInputs : Edit("productId", v, FALSE)
    \/ \E v \in IdInputs : Edit("supplierId", v, FALSE)
    \/ OnProductIdBlur
    \/ OnSupplierIdBlur
    \/ \E i \in DOMAIN http, ok \in BOOLEAN : GetProductByIdResponse(i, ok)
    \/ \E i \in DOMAIN http, ok \in BOOLEAN : GetSupplierByIdResponse(i, ok)
    \/ \E i \in DOMAIN http, ok \in BOOLEAN : GetProductsResponse(i, ok)
    \/ \E i \in DOMAIN http, ok \in BOOLEAN : GetSuppliersResponse(i, ok)
    \/ \E v \in OptionValues : OnProductOptionSelected(v)
    \/ \E v \in OptionValues : OnSupplierOptionSelected(v)

SpecLookup == Init /\ [][NextLookup]_vars

\* users register, log in with right and wrong credentials and log out
NextSession ==
    \/ \E dto \in AuthDtos : Register(dto, Null)
    \/ \E dto \in LoginUserDTO : AuthLogin(dto)
    \/ \E i \in DOMAIN logins, env \in ExpiresInEnv, ok \in BOOLEAN :
          AuthLoginResponse(i, env, ok)
    \/ AuthLogout

SpecSession == Init /\ [][NextSession]_vars

InitGen ==
    /\ BackendInit /\ FrontendInit /\ SessionInit
    /\ \E productName \in ProductNames : generated = [productName |-> productName, id |-> Null]

NextGen ==
    \E random \in RandomNums :
        \E perm \in Permutations(DOMAIN Combined(generated.productName, random)) :
            GenerateEntryId(random, perm)

SpecGen == InitGen /\ [][NextGen]_vars

-----------------------------------------------------------------------------
(* Claims about the users store and authentication *)

RowsWithEmail(rows, email) == { r \in rows : r.email = email }

\* the row findOne answers with: the one with the lowest id
FirstOf(rows) == CHOOSE r \in rows : \A q \in rows : r.id <= q.id

AllDigits(s) == \A i \in 1..Len(s) : s[i] \in Digits

\* the form 000.000.000-00
IsMaskedCpf(s) ==
    /\ Len(s) = 14
    /\ s[4] = "." /\ s[8] = "." /\ s[12] = "-"
    /\ \A i \in (1..14) \ {4, 8, 12} : s[i] \in Digits

(* C1: a registration with the email of the registration completed just     *)
(* before it fails (HTTP 400, 'User already exists') and the users table    *)
(* then holds exactly one row with that email; more generally a             *)
(* registration with an email some row holds fails and changes no row.      *)
C1_RegisterTwice ==
    [][ /\ ( /\ last.op = "register" /\ ~Throws(last.res)
             /\ last'.op = "register" /\ last'.arg.email = last.arg.email )
           => /\ last'.res = HttpException("User already exists", BAD_REQUEST)
              /\ Cardinality(RowsWithEmail(users', last'.arg.email)) = 1
        /\ ( last'.op = "register" /\ RowsWithEmail(users, last'.arg.email) # {} )
           => /\ Throws(last'.res)
              /\ users' = users
      ]_vars

C1_Witness ==
    /\ last.op = "register"
    /\ last.res = HttpException("User already exists", BAD_REQUEST)
    /\ Cardinality(RowsWithEmail(users, last.arg.email)) = 1

\* the three outcomes of a login; missing is the status for an unknown email
LoginOutcomes(missing) ==
    last'.op = "login" =>
          LET hit == RowsWithEmail(users, last'.arg.email)
          IN  IF hit = {}
              THEN /\ last'.res = HttpException("User not found", missing)
                   /\ tokens' = tokens
              ELSE IF FirstOf(hit).password # HashPassword(last'.arg.password)
              THEN /\ last'.res = HttpException("Invalid credentials", UNAUTHORIZED)
                   /\ tokens' = tokens
              ELSE /\ ~Throws(last'.res)
                   /\ last'.res.value.uid = FirstOf(hit).uid
                   /\ last'.res.value.accessToken = [jwt |-> [uid |-> FirstOf(hit).uid]]
                   /\ last'.res.value.expiresIn =
                        (IF last'.arg.env = "" THEN "DEFAULT_EXPIRESIN" ELSE last'.arg.env)
                   /\ tokens' = tokens \cup {FirstOf(hit).uid}

(* C2 as stated: a login with an email no row holds fails NotFound (404);   *)
(* a wrong password fails Unauthorized; a right one returns token, expiry   *)
(* and uid; no token is issued on failure.                                  *)
C2_LoginAsClaimed == [][LoginOutcomes(NOT_FOUND)]_vars

(* C2 amended: a login with an email no row holds fails Unauthorized (401)  *)
(* with message 'User not found'; a wrong password fails Unauthorized with  *)
(* 'Invalid credentials'; a right one returns token, expiry and uid; no     *)
(* token is issued on failure.                                              *)
C2_Login == [][LoginOutcomes(UNAUTHORIZED)]_vars

C2_Witness ==
    /\ last.op = "login"
    /\ users # {}
    /\ RowsWithEmail(users, last.arg.email) = {}
    /\ last.res = HttpException("User not found", UNAUTHORIZED)

(* C10: validateUser with a uid no row holds fails Unauthorized ('Invalid   *)
(* token'); with the uid of a row it returns the DTO of that user.          *)
C10_ValidateUser ==
    last.op = "validateUser" =>
        LET hit == { r \in users : r.uid = last.arg.uid }
        IN  IF hit = {}
            THEN last.res = HttpException("Invalid token", UNAUTHORIZED)
            ELSE /\ ~Throws(last.res)
                 /\ \E r \in hit : /\ last.res.value.id = r.id
                                   /\ last.res.value.uid = r.uid
                                   /\ last.res.value.email = r.email

-----------------------------------------------------------------------------
(* Claims about the national id *)

\* the user DTOs the last response carries
ReturnedUserDtos ==
    IF Throws(last.res) THEN {}
    ELSE IF last.op \in {"createUser", "updateUser", "getUser"} THEN {last.res.value}
    ELSE IF last.op = "getAllUsers"
    THEN { last.res.value.users[i] : i \in 1..Len(last.res.value.users) }
    ELSE {}

RowOf(rows, id) == CHOOSE r \in rows : r.id = id

\* the digits of s, in order (s read character by character)
RECURSIVE DigitsOf(_)
DigitsOf(s) ==
    IF s = <<>> THEN <<>>
    ELSE (IF Head(s) \in Digits THEN <<Head(s)>> ELSE <<>>) \o DigitsOf(Tail(s))

\* what createUser / updateUser stored is the digits of the cpf of the request
StoredCpfIsDigitsOfInput ==
    (last.op \in {"createUser", "updateUser"} /\ ~Throws(last.res)) =>
        LET dto == IF last.op = "createUser" THEN last.arg ELSE last.arg.dto
        IN  RowOf(users, last.res.value.id).cpf = DigitsOf(dto.cpf)

(* C7 as stated: every stored cpf is digits only, and every user DTO        *)
(* returned carries the cpf in the form 000.000.000-00, whatever the        *)
(* punctuation and the number of digits of the input.                       *)
C7_CpfAsClaimed ==
    /\ \A r \in users : AllDigits(r.cpf)
    /\ StoredCpfIsDigitsOfInput
    /\ \A d \in ReturnedUserDtos : IsMaskedCpf(d.cpf)

(* C7 amended: every stored cpf is the digits of the input, whatever its    *)
(* punctuation; a user DTO carries the form 000.000.000-00 exactly when     *)
(* the stored cpf has 11 digits; with fewer digits it carries the digits    *)
(* unmasked, with more it carries the first 11 masked followed by the rest. *)
C7_Cpf ==
    /\ \A r \in users : AllDigits(r.cpf)
    /\ StoredCpfIsDigitsOfInput
    /\ \A d \in ReturnedUserDtos :
          LET stored == RowOf(users, d.id).cpf
          IN  /\ DigitsOf(d.cpf) = stored
              /\ Len(stored) = 11 => IsMaskedCpf(d.cpf)
              /\ Len(stored) < 11 => d.cpf = stored
              /\ Len(stored) > 11 => /\ IsMaskedCpf(SubSeq(d.cpf, 1, 14))
                                     /\ Len(d.cpf) = Len(stored) + 3

C7_Witness ==
    /\ last.op = "createUser"
    /\ ~Throws(last.res)
    /\ ~AllDigits(last.arg.cpf)
    /\ Len(DigitsOf(last.arg.cpf)) # 11
    /\ ~IsMaskedCpf(last.res.value.cpf)

-----------------------------------------------------------------------------
(* Claims about get, update and delete by id *)

Absent(rows, id) == \A r \in rows : r.id # id

IsNotFound(res) == Throws(res) /\ res.status = NOT_FOUND

\* get and delete of an absent id, as claimed: all fail NotFound
AbsentIdAsClaimed ==
    /\ (last'.op \in {"getUser", "deleteUser"} /\ Absent(users, last'.arg.id))
          => IsNotFound(last'.res)
    /\ (last'.op \in {"supplier.findOne", "supplier.remove"}
          /\ Absent(suppliers, last'.arg.id))
          => IsNotFound(last'.res)
    /\ (last'.op \in {"findById", "getDocumentById"} /\ Absent(documents, last'.arg.id))
          => IsNotFound(last'.res)

\* get and delete of an absent id, service by service
AbsentIdPerService ==
    /\ (last'.op = "getUser" /\ Absent(users, last'.arg.id))
          => last'.res = HttpException("User not found", BAD_REQUEST)
    /\ (last'.op = "deleteUser" /\ Absent(users, last'.arg.id))
          => last'.res = Return(Null) /\ users' = users
    /\ (last'.op = "supplier.findOne" /\ Absent(suppliers, last'.arg.id))
          => last'.res = Return(Null)
    /\ (last'.op = "supplier.remove" /\ Absent(suppliers, last'.arg.id))
          => last'.res = Return(Null) /\ suppliers' = suppliers
    /\ (last'.op = "findById" /\ Absent(documents, last'.arg.id))
          => last'.res = HttpException("Document not found", NOT_FOUND)
    /\ (last'.op = "getDocumentById" /\ Absent(documents, last'.arg.id))
          => last'.res = Return(Null)

(* C8 as stated: getting or deleting an id the table does not hold fails    *)
(* NotFound, for users (getUser, deleteUser), suppliers (findOne, remove)   *)
(* and documents (findById, getDocumentById).                               *)
C8_AbsentIdAsClaimed == [][AbsentIdAsClaimed]_vars

(* C8 amended: for an id the table does not hold, only findById fails       *)
(* NotFound (404); getUser fails BadRequest (400, 'User not found');        *)
(* SupplierService.findOne and getDocumentById return null; deleteUser and  *)
(* SupplierService.remove succeed and leave the table unchanged.            *)
C8_AbsentId == [][AbsentIdPerService]_vars

C8_Witness ==
    /\ last.op = "getUser"
    /\ users # {}
    /\ Absent(users, last.arg.id)
    /\ last.res = HttpException("User not found", BAD_REQUEST)

\* updateUser: NotFound and no change for an absent id, else that row merged
UpdateUserStep ==
    last'.op = "updateUser" =>
        LET id  == last'.arg.id
            dto == last'.arg.dto
        IN  IF Absent(users, id)
            THEN /\ last'.res = HttpException("User not found", NOT_FOUND)
                 /\ users' = users
            ELSE LET old == RowOf(users, id)
                     new == [id       |-> id,
                             uid      |-> old.uid,
                             name     |-> dto.name,
                             email    |-> dto.email,
                             password |-> <<"hash", dto.password>>,
                             cpf      |-> DigitsOf(dto.cpf)]
                 IN  /\ users' = (users \ {old}) \cup {new}
                     /\ ~Throws(last'.res)
                     /\ last'.res.value.id = id

\* SupplierService.update: NotFound and no change for an absent id, else that
\* row with the supplied fields replaced
UpdateSupplierStep ==
    last'.op = "supplier.update" =>
        LET id  == last'.arg.id
            dto == last'.arg.dto
        IN  IF Absent(suppliers, id)
            THEN /\ last'.res = HttpException("Supplier not found", NOT_FOUND)
                 /\ suppliers' = suppliers
            ELSE LET old == RowOf(suppliers, id)
                     new == [id      |-> id,
                             name    |-> IF "name" \in DOMAIN dto
                                         THEN dto.name ELSE old.name,
                             contact |-> IF "contact" \in DOMAIN dto
                                         THEN dto.contact ELSE old.contact]
                 IN  /\ suppliers' = (suppliers \ {old}) \cup {new}
                     /\ last'.res = Return(new)

(* C9: update of an id the table does not hold fails NotFound and changes   *)
(* no row, for updateUser and SupplierService.update; for an id it holds,   *)
(* exactly that row changes: the supplied fields replace the stored ones    *)
(* and the cpf is stored as its digits.                                     *)
C9_Update == [][UpdateUserStep /\ UpdateSupplierStep]_vars

C9_Witness ==
    /\ last.op = "updateUser"
    /\ users # {}
    /\ Absent(users, last.arg.id)
    /\ last.res = HttpException("User not found", NOT_FOUND)

-----------------------------------------------------------------------------
(* Claims about the product entry form *)

\* the step is a call of onSubmit
SubmitStep == submits' # submits

\* the step sends a request
SendStep == Len(http') > Len(http)

\* the value is neither null nor the empty text
Filled(v) == v # Null /\ v # Str("")

\* the value is a number of at least 0.01
AtLeastMin(v) == IsNum(v) /\ v.num >= MinAmount

\* C3: onSubmit sends a createEntry request only when productId, supplierId,
\* entryDate and invoiceNumber are non-empty and quantity and unitValue are
\* both at least 0.01, also after resetForm has run.
C3_SubmitOnlyValid ==
    [][(SubmitStep /\ SendStep) =>
          /\ \A c \in {"productId", "supplierId", "entryDate", "invoiceNumber"} :
                Filled(entryForm.value[c])
          /\ AtLeastMin(entryForm.value["quantity"])
          /\ AtLeastMin(entryForm.value["unitValue"])]_vars

\* the request sent by the step carries exactly one file part
SentWithOneFile == Len(http'[Len(http')].body.file) = 1

\* C4 as claimed: onSubmit with no held upload file sets fileError and sends
\* no request, whatever the form holds, and every createEntry request carries
\* exactly one file part.
C4_FileMandatoryAsClaimed ==
    [][/\ (SubmitStep /\ uploadFile = Null) => (fileError' /\ http' = http)
       /\ SendStep => SentWithOneFile]_vars

\* C4: onSubmit with no held upload file sends no request, and sets fileError
\* when the form is valid (with an invalid form it returns before it looks at
\* the file and leaves fileError as it is); every createEntry request carries
\* exactly one file part.
C4_FileMandatory ==
    [][/\ (SubmitStep /\ uploadFile = Null) =>
             /\ http' = http
             /\ FormValid(entryForm) => fileError'
             /\ ~FormValid(entryForm) => fileError' = fileError
       /\ SendStep => SentWithOneFile]_vars

\* onSubmit has found a valid form and no file while a selected file was
\* still being read
C4_Witness == fileError /\ uploadFile = Null /\ readers # <<>>

\* the text is the numeral of a positive number
PositiveNumeral(t) == DOMAIN t = {"numeral"} /\ t.numeral > 0

\* the createEntry requests that carry a positive quantity and unitValue
PositiveCreates ==
    {i \in Pending("createEntry") :
        PositiveNumeral(http[i].body.quantity) /\ PositiveNumeral(http[i].body.unitValue)}

\* quantity x unitValue of a request, in ten-thousandths
ProductOf(body) == body.quantity.numeral * body.unitValue.numeral

\* C5 as claimed: the totalValue submitted equals the product of the submitted
\* quantity and unitValue, for all positive quantity and unitValue.
C5_TotalAsClaimed ==
    \A i \in PositiveCreates :
        /\ DOMAIN http[i].body.totalValue = {"fixed2"}
        /\ http[i].body.totalValue.fixed2 * 100 = ProductOf(http[i].body)

\* C5: the totalValue submitted is the product of the submitted quantity and
\* unitValue rounded to two decimals: it differs from the product by at most
\* half a hundredth.
C5_Total ==
    \A i \in PositiveCreates :
        /\ DOMAIN http[i].body.totalValue = {"fixed2"}
        /\ http[i].body.totalValue.fixed2 * 100 - ProductOf(http[i].body) \in -50..50

\* a request is in flight whose product has more than two decimals
C5_Witness ==
    \E i \in PositiveCreates : ProductOf(http[i].body) % 100 # 0

\* C6: generateEntryId returns exactly 6 characters, each an uppercase letter
\* or a digit, for every non-empty name, random number and shuffle.
C6_SixCharacters ==
    (generated.id # Null /\ Len(generated.productName) > 0) =>
        /\ Len(generated.id) = 6
        /\ \A i \in DOMAIN generated.id :
              \/ generated.id[i] \in Digits
              \/ \E k \in DOMAIN UpperLetters : UpperLetters[k] = generated.id[i]

-----------------------------------------------------------------------------
(* Claims about registration and the documents store *)

\* the body of a register request without the outcome of the save
BodyOf(arg) == [f \in {"name", "email", "password", "cpf"} |-> arg[f]]

\* what one POST /auth/register does, seen from AuthService.register, from
\* the users table and from the response of the controller
RegisterOutcome ==
    last'.op = "register" =>
        LET dto   == BodyOf(last'.arg)
            fault == last'.arg.fault
            s     == AuthServiceRegister(users, nextUserId, dto, fault).res
            fails == EmailTaken(dto.email) \/ ~IsNull(fault)
            added == users' \ users
        IN  /\ ~Throws(s)
            /\ s.value.success <=> ~fails
            /\ s.value.success <=>
                 (Cardinality(added) = 1 /\ \A r \in added : r.email = dto.email)
            /\ users \subseteq users'
            /\ s.value.success => last'.res = s
            /\ ~s.value.success =>
                 /\ users' = users
                 /\ s.value.message =
                      (IF EmailTaken(dto.email) THEN "User already exists"
                       ELSE IF fault.message # "" THEN fault.message
                       ELSE "user registration failed")
                 /\ last'.res = HttpException(s.value.message, BAD_REQUEST)

(* C11: AuthService.register never lets a failure of createUser escape: for *)
(* a duplicate email and for any error of the save it returns              *)
(* {success: false, message}, and it returns {success: true} exactly when  *)
(* a new user row was stored; the controller answers success: false with   *)
(* HTTP 400 carrying that message.                                          *)
C11_Register == [][RegisterOutcome]_vars

C11_Witness ==
    /\ last.op = "register"
    /\ ~IsNull(last.arg.fault)
    /\ ~EmailTaken(last.arg.email)
    /\ last.res = HttpException("ER_LOCK_DEADLOCK", BAD_REQUEST)

\* haystack contains needle
Contains(haystack, needle) ==
    \E i \in 0..(Len(haystack) - Len(needle)) :
        SubSeq(haystack, i + 1, i + Len(needle)) = needle

\* the predicates of the filter query, with the filename as a substring
Satisfies(doc, filters) ==
    /\ filters.file_type # Null => Str(doc.file_type) = filters.file_type
    /\ filters.user_id # Null => doc.user_id = filters.user_id.numeral
    /\ filters.id # Null => doc.id = filters.id.numeral
    /\ filters.filename # Null =>
         Contains(toLowerCase(doc.filename), toLowerCase(filters.filename.text))
    /\ filters.upload_date # Null => Str(doc.upload_date) = filters.upload_date

Returned == {last.res.value[i].id : i \in DOMAIN last.res.value}

(* C12: findWithFilters returns exactly the stored documents that satisfy   *)
(* all supplied predicates: with no filter all of them, with a filename     *)
(* those whose filename contains it without regard to case; an absent       *)
(* filter imposes no constraint.                                            *)
C12_FindWithFilters ==
    last.op = "findWithFilters" =>
        Returned = {doc.id : doc \in {d \in documents : Satisfies(d, last.arg)}}

(* C13: in every reachable state, under any interleaving of createUser,     *)
(* updateUser and deleteUser requests, no two user rows hold the same       *)
(* email.                                                                   *)
C13_EmailUnique == \A r, q \in users : r.email = q.email => r = q

SameFileAndOwner(d, e) == d.filename = e.filename /\ d.user_id = e.user_id

\* what one createDocument does to the table and what it answers
CreateDocumentOutcome ==
    last'.op = "createDocument" =>
        LET dto   == last'.arg
            added == documents' \ documents
        IN  IF \E d \in documents : SameFileAndOwner(d, dto)
            THEN /\ last'.res = HttpException("Document already exists", BAD_REQUEST)
                 /\ documents' = documents
            ELSE IF Throws(last'.res)
            THEN /\ last'.res.status = INTERNAL_SERVER_ERROR
                 /\ documents' = documents
            ELSE /\ Cardinality(added) = 1
                 /\ documents \subseteq documents'
                 /\ \A d \in added :
                      /\ SameFileAndOwner(d, dto)
                      /\ last'.res = Return(toDocumentDTO(d))

(* C16: createDocument never leaves two stored documents with the same      *)
(* filename and owner: a create that repeats a stored filename + owner      *)
(* fails with 'Document already exists' (400) and stores nothing, any other *)
(* failure of the save is answered with 500 and stores nothing, and a       *)
(* successful create returns the DTO of the stored row.                     *)
C16_CreateDocument ==
    [][ /\ \A d, e \in documents' : SameFileAndOwner(d, e) => d = e
        /\ CreateDocumentOutcome
      ]_vars

C16_Witness ==
    /\ last.op = "createDocument"
    /\ last.res = HttpException("Document already exists", BAD_REQUEST)
    /\ Cardinality({d \in documents : SameFileAndOwner(d, last.arg)}) = 1

\* the uid and the id of a row stay as they are while the row is stored, a
\* row that createUser adds gets a uid no stored row has, and updateUser
\* touches no row but the one with its id
UidKept ==
    /\ \A r \in users, q \in users' : q.id = r.id => q.uid = r.uid
    /\ last'.op = "createUser" =>
         \A q \in users' \ users : \A r \in users : r.uid # q.uid /\ r.id # q.id
    /\ last'.op = "updateUser" =>
         /\ \A r \in users : r.id # last'.arg.id => r \in users'
         /\ \A q \in users' : q.id # last'.arg.id => q \in users
         /\ ~Throws(last'.res) =>
              \E q \in users' :
                 /\ q.id = last'.arg.id
                 /\ q.uid = last'.res.value.uid
                 /\ q.name = last'.arg.dto.name
                 /\ q.email = last'.arg.dto.email

(* C17: the uid of a user is generated once, by createUser, and never       *)
(* changes: updateUser changes only name, email, password and cpf of the    *)
(* row with the given id and leaves its uid, its id and every other row as  *)
(* they are, also when requests overlap.                                    *)
C17_UidKept == [][UidKept]_vars

\* an update has changed the name and the email of one of two rows
C17_Witness ==
    /\ last.op = "updateUser"
    /\ ~Throws(last.res)
    /\ Cardinality(users) = 2
    /\ \E q \in users :
          /\ q.id = last.arg.id
          /\ q.uid = NewUid(q.id)
          /\ q.name = last.arg.dto.name
          /\ \E r \in users : r.id # q.id /\ r.name # q.name
-----------------------------------------------------------------------------
(* Claims about the file, the lookups and the failures of the entry form *)

\* the files a selection may hand over: PDFs of at most MAX_FILE_SIZE bytes
SmallPdfs ==
    { files[1] : files \in { fs \in FileInputs :
                               /\ Len(fs) > 0
                               /\ fs[1].type = "application/pdf"
                               /\ fs[1].size <= MAX_FILE_SIZE } }

HeldOf(file) == [name |-> file.name, base64 |-> Base64(file)]

(* C14: every file part of a createEntry request, and the held upload file, *)
(* comes from a selected PDF of at most MAX_FILE_SIZE bytes; a selection    *)
(* that is not a PDF or is larger never becomes the held file.              *)
C14_OnlySmallPdf ==
    /\ uploadFile # Null => \E file \in SmallPdfs : uploadFile = HeldOf(file)
    /\ \A i \in Pending("createEntry") :
         \A k \in DOMAIN http[i].body.file :
            \E file \in SmallPdfs : http[i].body.file[k] = FilePart(HeldOf(file))

\* a request is on its way with the file held before an oversized selection
C14_Witness ==
    /\ file_size_error
    /\ Pending("createEntry") # {}
    /\ uploadFile # Null

\* null, not a number, or not positive
NotAPositiveNumber(v) == IF IsNum(v) THEN v.num <= 0 ELSE TRUE

Cleared(f, idc, namec) == f.value[idc] = Null /\ f.value[namec] = Str("")

\* leaving the id control idc: an invalid id is cleared with one alert and
\* without a request, a valid one is looked up
BlurResolves(idc, namec, req) ==
    IF NotAPositiveNumber(entryForm.value[idc])
    THEN /\ http' = http
         /\ Cleared(entryForm', idc, namec)
         /\ Len(alerts') = 1
    ELSE /\ http' = Append(http, [req |-> req, id |-> entryForm.value[idc]])
         /\ entryForm' = entryForm
         /\ alerts' = <<>>

\* the answer to the lookup req: without a record the id and the name are
\* cleared with one alert, with a record its name is set and the id is kept
LookupResolves(req, catalog, idc, namec) ==
    \A i \in Pending(req) :
        http' = RemoveAt(http, i) =>
            LET records == {k \in DOMAIN catalog : catalog[k].id = http[i].id}
            IN  \/ /\ Cleared(entryForm', idc, namec)
                   /\ Len(alerts') = 1
                \/ /\ \E k \in records : entryForm'.value[namec] = catalog[k].name
                   /\ entryForm'.value[idc] = entryForm.value[idc]
                   /\ alerts' = <<>>

C19_FailedCreate ==
    [][ (\E i \in DOMAIN http, message \in ErrorMessages : CreateEntryFailed(i, message)) =>
            /\ Len(alerts') = 1
            /\ Cardinality(Pending("createEntry")') = Cardinality(Pending("createEntry")) - 1
            /\ Len(http') = Len(http) - 1
            /\ entries' = entries
            /\ serverEntries' = serverEntries
            /\ entryForm' = entryForm
            /\ uploadFile' = uploadFile
      ]_vars

\* the request of a filled form has failed: the form and the file are still there
C19_Witness ==
    /\ alerts = <<"Erro ao salvar: Verifique os dados">>
    /\ Pending("createEntry") = {}
    /\ uploadFile # Null
    /\ entryForm.value["invoiceNumber"] = Str("NF-1")
    /\ entries = <<>>

(* C20: onProductOptionSelected(selectedValue) with a numeric value sets    *)
(* productId and productName to those of the loaded product whose id is     *)
(* the selected value; when no loaded product has that id, or the value is  *)
(* empty or not numeric, the form stays as it is.                           *)
C20_ProductOption ==
    [][ \A v \in OptionValues :
          OnProductOptionSelected(v) =>
            LET hits == {k \in DOMAIN products :
                           DOMAIN v = {"numeral"} /\ products[k].id = Num(v.numeral)}
            IN  IF hits = {} THEN entryForm' = entryForm
                ELSE \E k \in hits :
                        /\ entryForm'.value["productId"] = products[k].id
                        /\ entryForm'.value["productName"] = products[k].name
      ]_vars
-----------------------------------------------------------------------------
(* Claims about the session of the frontend *)

\* a login request was answered in this step
LoginAnswered == Len(logins') < Len(logins)

LoginSucceeded == LoginAnswered /\ last' # last /\ ~Throws(last'.res)

(* C18: isLoggedIn() is true exactly when a login has succeeded and no      *)
(* logout has followed it; a successful login stores the token of its       *)
(* response, a failed one leaves the stored token as it is, and logout      *)
(* removes it.                                                              *)
C18_Session ==
    [][ /\ isLoggedIn(localStorage') <=> session'
        /\ LoginSucceeded => getToken(localStorage') = last'.res.value.accessToken
        /\ (LoginAnswered /\ ~LoginSucceeded) => localStorage' = localStorage
        /\ AuthLogout => getToken(localStorage') = Null
        /\ (~LoginAnswered /\ ~AuthLogout) => localStorage' = localStorage
      ]_vars

\* a wrong password after a successful login: the token is still the first
C18_Witness ==
    /\ last.op = "login"
    /\ Throws(last.res)
    /\ logins = <<>>
    /\ session
    /\ isLoggedIn(localStorage)
-----------------------------------------------------------------------------
(* Claims about requests that overlap with what the user does meanwhile *)

\* the answer to the i-th request, a lookup for the control idc: a name it
\* writes is the name of the record whose id the control holds, and when the
\* control holds another id than the one looked up, the id and the name stay
AnswerFits(i, catalog, idc, namec) ==
    /\ (entryForm'.value[namec] # entryForm.value[namec] /\ entryForm'.value[namec] # Str(""))
         => \E k \in DOMAIN catalog : /\ catalog[k].id = entryForm.value[idc]
                                      /\ catalog[k].name = entryForm'.value[namec]
    /\ http[i].id # entryForm.value[idc]
         => /\ entryForm'.value[idc] = entryForm.value[idc]
            /\ entryForm'.value[namec] = entryForm.value[namec]

(* C21: whenever the response handler of a blur lookup writes productName   *)
(* (supplierName), the name belongs to the product (supplier) whose id is   *)
(* in productId (supplierId) at that moment; a response for an id the user  *)
(* has replaced since neither overwrites the name nor clears the newer id.  *)
C21_FreshLookup ==
    [][ /\ \A i \in DOMAIN http, ok \in BOOLEAN :
             GetProductByIdResponse(i, ok)
                => AnswerFits(i, ProductCatalog, "productId", "productName")
        /\ \A i \in DOMAIN http, ok \in BOOLEAN :
             GetSupplierByIdResponse(i, ok)
                => AnswerFits(i, SupplierCatalog, "supplierId", "supplierName")
      ]_vars

\* no createEntry, deleteEntry or getEntries request is in flight
Quiet == Pending("createEntry") \cup Pending("deleteEntry") \cup Pending("getEntries") = {}

(* C22: with this client as the only writer, once no createEntry,           *)
(* deleteEntry or getEntries request is in flight, the entries in the       *)
(* component's table are exactly the entries the server stores: a created   *)
(* entry is not dropped by a reload fetched before the create, and a        *)
(* deleted entry is not displayed.                                          *)
C22_TableIsStore ==
    Quiet => /\ {entries[k] : k \in DOMAIN entries} = serverEntries
             /\ Len(entries) = Cardinality(serverEntries)

\* the ids of the stored users
UserIds(us) == {r.id : r \in us}

(* C23: updateUser never creates a user record: when its save runs after a  *)
(* deleteUser of the same id that followed its preload, the record stays    *)
(* absent; an update does not bring back a user a concurrent delete removed.*)
C23_NoResurrection ==
    [][ \A i \in DOMAIN pending :
          UpdateUserSave(i) => UserIds(users') \subseteq UserIds(users)
      ]_vars
-----------------------------------------------------------------------------
(* Claims about what resetForm leaves alone *)

\* a step that runs resetForm: the next handler of createEntry, or onCancel
ResetStep == OnCancel \/ \E i \in DOMAIN http : CreateEntrySaved(i)

\* a step that sends a createEntry request
SubmitSends == OnSubmit /\ Len(http') = Len(http) + 1

(* C24: resetForm, run after a successful submit and by onCancel, sets      *)
(* every form field to its default and leaves the held upload file,         *)
(* fileError and file_size_error as they are; the upload file changes only  *)
(* when a FileReader of a valid selection completes or by removeFile; a     *)
(* submit sends the file that is held, so without a new selection the same  *)
(* file is sent again.                                                      *)
C24_ResetKeepsFile ==
    [][ /\ ResetStep => /\ entryForm'.value = ResetState
                        /\ uploadFile' = uploadFile
                        /\ fileError' = fileError
                        /\ file_size_error' = file_size_error
        /\ uploadFile' # uploadFile =>
              \/ RemoveFile
              \/ \E i \in DOMAIN readers :
                    /\ FileReaderOnload(i)
                    /\ readers[i].type = "application/pdf"
                    /\ readers[i].size <= MAX_FILE_SIZE
        /\ SubmitSends => /\ uploadFile # Null
                          /\ http'[Len(http')].body.file = <<FilePart(uploadFile)>>
      ]_vars

\* an entry was saved and the form reset; the form was filled again and
\* submitted without a new selection: the request carries the held file; an
\* oversized selection made meanwhile left its flag
C24_Witness ==
    /\ entries = <<1>>
    /\ file_size_error
    /\ uploadFile = [name |-> AttachedPdf[1].name, base64 |-> Base64(AttachedPdf[1])]
    /\ \E i \in Pending("createEntry") : http[i].body.file = <<FilePart(uploadFile)>>
    /\ entryForm.value["invoiceNumber"] = Str("NF-1")
=============================================================================
